---- MODULE Spec2Model ----
(***************************************************************************)
(* Dividend Stock Analyzer (src/streamlit_app.py): the dividend-history    *)
(* aggregation, the historical yield range, the multi-source EPS chain     *)
(* and the quality / valuation engine; then the regional criteria, the     *)
(* dividend status, the two EPS stages on their own, the cached SEC ticker *)
(* directory, and the usage counter of a session.                          *)
(*                                                                         *)
(* Conventions.                                                            *)
(*  - Money amounts and prices are integers (multiples of one unit); the   *)
(*    source uses binary floats.  Yields are exact rationals <<num, den>>  *)
(*    with den > 0, compared by cross-multiplication.                      *)
(*  - Python's None is the empty tuple, a returned value v is <<v>>.       *)
(*  - A Python dict is a function whose DOMAIN is the set of its keys.     *)
(*  - Calendar years are small integers; current_year is                   *)
(*    datetime.now().year.                                                 *)
(***************************************************************************)
EXTENDS Integers, Sequences, FiniteSets, TLC

VARIABLES
    \* ---- dividend history (calculate_dividend_increases & co) ----
    dividends,            \* stock.dividends: chronological <<[year, div], ...>>
    current_year,         \* datetime.now().year
    dividend_increases,   \* None or <<result of calculate_dividend_increases>>
    consecutive_years,    \* None or <<result of calculate_consecutive_dividend_years>>
    \* ---- historical yields (calculate_historical_yields) ----
    hist,                 \* stock.history(period="5y"): [ok, Close]
    annual_dividend,      \* info['dividendRate']
    hist_yields,          \* None or <<(high, low) returned>>
    \* ---- EPS chain (fetch_eps_increases_multi_source) ----
    ticker,               \* the ticker symbol being resolved
    stock,                \* the yfinance handle passed by the caller (truthy or not)
    eps_pc,               \* position in fetch_eps_increases_multi_source
    eps_attempts,         \* the stages called so far, with what each returned
    eps_result,           \* None or <<(eps_increases, source label) returned>>
    \* ---- fetch_stock_data / analyze_stock ----
    stock_data,           \* None or <<dict returned by fetch_stock_data>>
    screening_mode,       \* the mode handed to analyze_stock
    analysis,             \* None or <<dict returned by analyze_stock>>
    \* ---- get_regional_criteria ----
    regional_table,       \* the module-level dict REGIONAL_CRITERIA
    resolve_calls,        \* the calls of get_regional_criteria so far, with results
    \* ---- determine_dividend_status ----
    status_years,         \* the consecutive_years handed to determine_dividend_status
    dividend_status,      \* None or <<label returned>>
    \* ---- one EPS stage on its own (SEC EDGAR or Macrotrends) ----
    stage_source,         \* which stage runs
    stage_input,          \* the entries of the selected us-gaap field, or the rows matched in the page
    stage_map,            \* None or <<the year -> EPS dict the stage built>>
    stage_count,          \* None or <<what the stage returned>>
    \* ---- the SEC directory cache and the SEC EDGAR stage's requests ----
    now,                  \* time.time(), in seconds since the process started
    directory_state,      \* what a request for company_tickers.json would meet
    directory_cache,      \* st.cache_data entry of load_sec_company_tickers, None or <<[value, loaded_at]>>
    directory_loads,      \* the downloads of the directory so far, [at, state]
    registry_run,         \* None or <<the latest run of fetch_sec_edgar_eps_increases>>
    \* ---- two snapshot constructions on the same inputs, the EPS sources apart ----
    twin_sources,         \* None or <<the (count, label) pairs the chain returned in the two runs>>
    twin_data,            \* None or <<the two dicts returned by fetch_stock_data>>
    twin_analysis,        \* None or <<the two dicts returned by analyze_stock>>
    \* ---- one snapshot analysed in both screening modes ----
    mode_analyses,        \* None, or mode -> None or <<dict returned by analyze_stock in that mode>>
    \* ---- st.session_state and the page runs of one session (main) ----
    analysis_count,       \* st.session_state.analysis_count
    analyses_limit,       \* st.session_state.analyses_limit
    fetch_cache,          \* st.cache_data entries of fetch_stock_data, ticker -> None or <<value returned>>
    page_run              \* None or <<the latest run of main, its inputs and what it did>>

divVars == <<dividends, current_year, dividend_increases, consecutive_years>>
yieldVars == <<hist, annual_dividend, hist_yields>>
epsVars == <<ticker, stock, eps_pc, eps_attempts, eps_result>>
appVars == <<stock_data, screening_mode, analysis>>

critVars == <<regional_table, resolve_calls>>
statusVars == <<status_years, dividend_status>>
stageVars == <<stage_source, stage_input, stage_map, stage_count>>
registryVars == <<now, directory_state, directory_cache, directory_loads, registry_run>>
twinVars == <<twin_sources, twin_data, twin_analysis>>
modeVars == <<mode_analyses>>
sessionVars == <<analysis_count, analyses_limit, fetch_cache, page_run>>
extVars == <<critVars, statusVars, stageVars, registryVars, twinVars, modeVars, sessionVars>>

vars == <<divVars, yieldVars, epsVars, appVars, extVars>>

\* Python's None and a returned value.
None == <<>>
Some(v) == <<v>>
IsNone(r) == r = <<>>
Val(r) == r[1]

EmptyDict == [k \in {} |-> 0]

Max2(a, b) == IF a >= b THEN a ELSE b

(***************************************************************************)
(* Bounds of the model.                                                    *)
(***************************************************************************)
\* current_year ranges over FirstReferenceYear .. FirstReferenceYear + MaxExtraYears
MaxExtraYears == 1
\* longest arbitrary dividend series (number of payments)
MaxPayments == 2
\* largest single payment of an arbitrary series, in units
MaxAmount == 1
\* slowest growth of a regular series: the payment rises every 1..MaxStep years
MaxStep == 2
\* longest arbitrary price history (number of closes)
MaxPrices == 3
\* largest close of an arbitrary price history, in units
MaxPrice == 3
\* largest annual dividend rate, in units
MaxDividend == 2
\* longest arbitrary list of EPS entries / rows in a response
MaxEntries == 2
\* longest regular run of annual EPS values in a response
MaxEpsYears == 13

(***************************************************************************)
(* Program constants.                                                      *)
(***************************************************************************)
\* range(current_year - 12, current_year)
WindowYears == 12

\* The first calendar year of the model is 1; the earliest reference year
\* leaves one year before the 12-year window.
FirstReferenceYear == WindowYears + 2

(***************************************************************************)
(* Dividend history: calculate_dividend_increases,                         *)
(* calculate_consecutive_dividend_years                                    *)
(***************************************************************************)

\* for date, div in dividends.items(): if year in keep:
\*     annual_dividends[year] = annual_dividends.get(year, 0) + div
RECURSIVE AnnualDividends(_, _, _)
AnnualDividends(divs, keep, acc) ==
    IF divs = <<>> THEN acc
    ELSE LET e == Head(divs)
             nxt == IF e.year \in keep
                    THEN IF e.year \in DOMAIN acc
                         THEN [acc EXCEPT ![e.year] = @ + e.div]
                         ELSE acc @@ (e.year :> (0 + e.div))
                    ELSE acc
         IN  AnnualDividends(Tail(divs), keep, nxt)

\* sorted(d.keys())
RECURSIVE Sorted(_)
Sorted(S) ==
    IF S = {} THEN <<>>
    ELSE LET m == CHOOSE x \in S : \A y \in S : x <= y
         IN  <<m>> \o Sorted(S \ {m})

\* list(range(current_year - 12, current_year))
YearsToCheck(cy) == (cy - WindowYears)..(cy - 1)

\* for i in range(1, len(sorted_years)):
\*     if annual[sorted_years[i]] > annual[sorted_years[i-1]]: increases += 1
\* (sequences are 1-based here: i is the Python index plus one)
\* Mutant: >= in place of >.
RECURSIVE IncreasesLoop_GE(_, _, _)
IncreasesLoop_GE(annual, sorted_years, i) ==
    IF i > Len(sorted_years) THEN 0
    ELSE (IF annual[sorted_years[i]] >= annual[sorted_years[i - 1]] THEN 1 ELSE 0)
         + IncreasesLoop_GE(annual, sorted_years, i + 1)

RECURSIVE IncreasesLoop(_, _, _)
IncreasesLoop(annual, sorted_years, i) ==
    IF i > Len(sorted_years) THEN 0
    ELSE (IF annual[sorted_years[i]] > annual[sorted_years[i - 1]] THEN 1 ELSE 0)
         + IncreasesLoop(annual, sorted_years, i + 1)

calculate_dividend_increases(divs, cy) ==
    IF Len(divs) = 0 THEN 0
    ELSE LET annual_dividends == AnnualDividends(divs, YearsToCheck(cy), EmptyDict)
             sorted_years == Sorted(DOMAIN annual_dividends)
         IN  IncreasesLoop(annual_dividends, sorted_years, 2)

\* while year in annual_dividends and annual_dividends[year] > 0:
\*     consecutive += 1; year -= 1
RECURSIVE ConsecutiveLoop(_, _)
ConsecutiveLoop(annual, year) ==
    IF year \in DOMAIN annual /\ annual[year] > 0
    THEN 1 + ConsecutiveLoop(annual, year - 1)
    ELSE 0

AllYears(divs) == {divs[i].year : i \in 1..Len(divs)}

\* Mutant: the walk starts at current_year instead of current_year - 1.
calculate_consecutive_dividend_years_FromCurrent(divs, cy) ==
    IF Len(divs) = 0 THEN 0
    ELSE LET annual_dividends == AnnualDividends(divs, AllYears(divs), EmptyDict)
         IN  ConsecutiveLoop(annual_dividends, cy)

calculate_consecutive_dividend_years(divs, cy) ==
    IF Len(divs) = 0 THEN 0
    ELSE LET annual_dividends == AnnualDividends(divs, AllYears(divs), EmptyDict)
         IN  ConsecutiveLoop(annual_dividends, cy - 1)

(***************************************************************************)
(* Inputs of the dividend-history functions.                               *)
(***************************************************************************)
ReferenceYears == FirstReferenceYear..(FirstReferenceYear + MaxExtraYears)

Payment(y, a) == [year |-> y, div |-> a]

\* Arbitrary short series: at most MaxPayments payments of 0..MaxAmount units
\* dated in years 1..cy, in chronological order.
RECURSIVE ShortSeriesOfLen(_, _)
ShortSeriesOfLen(cy, n) ==
    IF n = 0 THEN {<<>>}
    ELSE UNION { {Append(s, Payment(y, a)) :
                    y \in (IF s = <<>> THEN 1 ELSE s[Len(s)].year)..cy, a \in 0..MaxAmount} :
                 s \in ShortSeriesOfLen(cy, n - 1) }

ShortSeries(cy) == UNION {ShortSeriesOfLen(cy, n) : n \in 0..MaxPayments}

\* Regular series: one payment in every year first..last, the payment rising
\* by one unit every `step` years, optionally preceded by one payment of
\* `early` units in year 1 (early = 0: no such payment).
RegularSeries(first, last, step, early) ==
    (IF early > 0 /\ first > 1 THEN <<Payment(1, early)>> ELSE <<>>)
    \o [i \in 1..(last - first + 1) |-> Payment(first + i - 1, 1 + ((i - 1) \div step))]

RegularSeriesSet(cy) ==
    {RegularSeries(f, l, k, e) :
        f \in 1..cy, l \in 1..cy, k \in 1..MaxStep, e \in 0..1}

\* Section 8's example: annual totals 1.0, 1.0, 1.2, 1.2, 1.5 (in tenths) in
\* five successive years inside the window, the fourth year paid in halves.
ExampleSeries(cy) ==
    << Payment(cy - 7, 10), Payment(cy - 6, 10), Payment(cy - 5, 12),
       Payment(cy - 4, 6), Payment(cy - 4, 6), Payment(cy - 3, 15) >>

(***************************************************************************)
(* Regional criteria: REGIONAL_CRITERIA, get_regional_criteria.            *)
(* shares_outstanding_min is in tenths of a million shares (5.0 is 50), so *)
(* that the Aggressive factor 0.4 stays exact.                             *)
(***************************************************************************)
Criteria(di, so, ih, ei, cd, descr) ==
    [ dividend_increases_min |-> di, shares_outstanding_min |-> so,
      institutional_holders_min |-> ih, eps_increases_min |-> ei,
      consecutive_dividend_min |-> cd, required_status |-> <<>>,
      description |-> descr ]

REGIONAL_CRITERIA ==
    ("USD" :> Criteria(5, 50, 5, 4, 10, "Practical criteria for US dividend stocks"))
    @@ ("GBP" :> Criteria(5, 500, 5, 4, 10, "Practical criteria for UK dividend stocks"))
    @@ ("CAD" :> Criteria(5, 100, 5, 4, 10, "Practical criteria for Canadian dividend stocks"))

\* Mutant: the factor 4 in place of 0.4.
TimesFourTenths_TimesFour(x) == x * 4

\* x * 0.4
TimesFourTenths(x) == (x * 4) \div 10

\* Mutant: the EPS threshold relaxed without its floor.
get_regional_criteria_NoFloor(currency, mode) ==
    LET base_criteria == IF currency \in DOMAIN regional_table
                         THEN regional_table[currency]
                         ELSE regional_table["USD"]
    IN  IF mode = "Aggressive"
        THEN [ dividend_increases_min |-> Max2(base_criteria.dividend_increases_min - 2, 3),
               shares_outstanding_min |-> TimesFourTenths(base_criteria.shares_outstanding_min),
               institutional_holders_min |-> Max2(base_criteria.institutional_holders_min - 2, 3),
               eps_increases_min |-> base_criteria.eps_increases_min - 2,
               consecutive_dividend_min |-> Max2(base_criteria.consecutive_dividend_min - 5, 5),
               required_status |-> <<>>,
               description |-> <<base_criteria.description, "(Aggressive)">> ]
        ELSE base_criteria

\* Mutant: the Aggressive branch writes the relaxed record back into the
\* table.
TableAfterResolve_InPlace(tbl, currency, mode) ==
    IF mode = "Aggressive"
    THEN LET key == IF currency \in DOMAIN tbl THEN currency ELSE "USD"
         IN  [tbl EXCEPT ![key].eps_increases_min = Max2(@ - 2, 3),
                         ![key].consecutive_dividend_min = Max2(@ - 5, 5)]
    ELSE tbl

\* The function assigns nothing to REGIONAL_CRITERIA or its records: the
\* Aggressive branch builds a new dict, the other returns base_criteria.copy().
TableAfterResolve(tbl, currency, mode) == tbl

\* REGIONAL_CRITERIA.get(currency, REGIONAL_CRITERIA["USD"]), read from the
\* module-level dict as it is at the time of the call; Aggressive:
\* max(base - 2, 3) for the counts, max(base - 5, 5) for the years, * 0.4
get_regional_criteria(currency, mode) ==
    LET base_criteria == IF currency \in DOMAIN regional_table
                         THEN regional_table[currency]
                         ELSE regional_table["USD"]
    IN  IF mode = "Aggressive"
        THEN [ dividend_increases_min |-> Max2(base_criteria.dividend_increases_min - 2, 3),
               shares_outstanding_min |-> TimesFourTenths(base_criteria.shares_outstanding_min),
               institutional_holders_min |-> Max2(base_criteria.institutional_holders_min - 2, 3),
               eps_increases_min |-> Max2(base_criteria.eps_increases_min - 2, 3),
               consecutive_dividend_min |-> Max2(base_criteria.consecutive_dividend_min - 5, 5),
               required_status |-> <<>>,
               description |-> <<base_criteria.description, "(Aggressive)">> ]
        ELSE base_criteria

(***************************************************************************)
(* Specification SpecDiv: the dividend-history functions on every input.   *)
(***************************************************************************)
DivIdle ==
    /\ dividends = <<>>
    /\ current_year = FirstReferenceYear
    /\ dividend_increases = None
    /\ consecutive_years = None

YieldIdle ==
    /\ hist = [ok |-> TRUE, Close |-> <<>>]
    /\ annual_dividend = 0
    /\ hist_yields = None

EpsIdle ==
    /\ ticker = "KO"
    /\ stock = TRUE
    /\ eps_pc = "idle"
    /\ eps_attempts = <<>>
    /\ eps_result = None

AppIdle ==
    /\ stock_data = None
    /\ screening_mode = "Balanced"
    /\ analysis = None

\* Outside a specification of its own each further component rests.
CritIdle ==
    /\ regional_table = REGIONAL_CRITERIA
    /\ resolve_calls = <<>>

StatusIdle ==
    /\ status_years = 0
    /\ dividend_status = None

StageIdle ==
    /\ stage_source = "SEC EDGAR"
    /\ stage_input = <<>>
    /\ stage_map = None
    /\ stage_count = None

RegistryIdle ==
    /\ now = 0
    /\ directory_state = "ok"
    /\ directory_cache = None
    /\ directory_loads = <<>>
    /\ registry_run = None

TwinIdle ==
    /\ twin_sources = None
    /\ twin_data = None
    /\ twin_analysis = None

ModeIdle ==
    /\ mode_analyses = None

\* st.session_state.analyses_limit = 5
AnalysesLimit == 5

SessionIdle ==
    /\ analysis_count = 0
    /\ analyses_limit = AnalysesLimit
    /\ fetch_cache = <<>>
    /\ page_run = None

ExtIdle == CritIdle /\ StatusIdle /\ StageIdle /\ RegistryIdle /\ TwinIdle /\ ModeIdle /\ SessionIdle

\* What the specification of one component leaves alone: the other components.
critRest == <<divVars, yieldVars, epsVars, statusVars, stageVars, registryVars, twinVars, modeVars, sessionVars>>
CritRestIdle == DivIdle /\ YieldIdle /\ EpsIdle /\ StatusIdle /\ StageIdle /\ RegistryIdle /\ TwinIdle /\ ModeIdle /\ SessionIdle
statusRest == <<divVars, yieldVars, epsVars, critVars, stageVars, registryVars, twinVars, modeVars, sessionVars>>
StatusRestIdle == DivIdle /\ YieldIdle /\ EpsIdle /\ CritIdle /\ StageIdle /\ RegistryIdle /\ TwinIdle /\ ModeIdle /\ SessionIdle
stageRest == <<divVars, yieldVars, epsVars, critVars, statusVars, registryVars, twinVars, modeVars, sessionVars>>
StageRestIdle == DivIdle /\ YieldIdle /\ EpsIdle /\ CritIdle /\ StatusIdle /\ RegistryIdle /\ TwinIdle /\ ModeIdle /\ SessionIdle
registryRest == <<divVars, yieldVars, epsVars, critVars, statusVars, stageVars, twinVars, modeVars, sessionVars>>
RegistryRestIdle == DivIdle /\ YieldIdle /\ EpsIdle /\ CritIdle /\ StatusIdle /\ StageIdle /\ TwinIdle /\ ModeIdle /\ SessionIdle
twinRest == <<divVars, yieldVars, epsVars, critVars, statusVars, stageVars, registryVars, modeVars, sessionVars>>
TwinRestIdle == DivIdle /\ YieldIdle /\ EpsIdle /\ CritIdle /\ StatusIdle /\ StageIdle /\ RegistryIdle /\ ModeIdle /\ SessionIdle
modeRest == <<divVars, yieldVars, epsVars, critVars, statusVars, stageVars, registryVars, twinVars, sessionVars>>
ModeRestIdle == DivIdle /\ YieldIdle /\ EpsIdle /\ CritIdle /\ StatusIdle /\ StageIdle /\ RegistryIdle /\ TwinIdle /\ SessionIdle
sessionRest == <<divVars, yieldVars, epsVars, critVars, statusVars, stageVars, registryVars, twinVars, modeVars>>
SessionRestIdle == DivIdle /\ YieldIdle /\ EpsIdle /\ CritIdle /\ StatusIdle /\ StageIdle /\ RegistryIdle /\ TwinIdle /\ ModeIdle

InitDiv ==
    /\ current_year \in ReferenceYears
    /\ \/ dividends \in ShortSeries(current_year)
       \/ dividends \in RegularSeriesSet(current_year)
       \/ dividends = ExampleSeries(current_year)
    /\ dividend_increases = None
    /\ consecutive_years = None
    /\ YieldIdle /\ EpsIdle /\ AppIdle /\ ExtIdle

CalculateDividendIncreases ==
    /\ IsNone(dividend_increases)
    /\ dividend_increases' = Some(calculate_dividend_increases(dividends, current_year))
    /\ UNCHANGED <<dividends, current_year, consecutive_years, yieldVars, epsVars, appVars, extVars>>

CalculateConsecutiveDividendYears ==
    /\ IsNone(consecutive_years)
    /\ consecutive_years' = Some(calculate_consecutive_dividend_years(dividends, current_year))
    /\ UNCHANGED <<dividends, current_year, dividend_increases, yieldVars, epsVars, appVars, extVars>>

NextDiv ==
    \/ CalculateDividendIncreases
    \/ CalculateConsecutiveDividendYears

SpecDiv == InitDiv /\ [][NextDiv]_vars

(***************************************************************************)
(* Reference definitions for the dividend-history claims: stated on the    *)
(* series itself, without the dictionaries and loops of the code.          *)
(***************************************************************************)
RECURSIVE SumDiv(_, _)
SumDiv(divs, idx) ==
    IF idx = {} THEN 0
    ELSE LET i == CHOOSE j \in idx : TRUE
         IN  divs[i].div + SumDiv(divs, idx \ {i})

\* sum of the payments dated in year y
AnnualTotal(divs, y) == SumDiv(divs, {i \in 1..Len(divs) : divs[i].year = y})

\* calendar years of [cy - 12, cy) with at least one payment
YearsPaidInWindow(divs, cy) ==
    {y \in AllYears(divs) : cy - WindowYears <= y /\ y < cy}

\* pairs of consecutive entries of the ascending list of those years whose
\* later total strictly exceeds the earlier one
IncreasePairs(divs, cy) ==
    LET P == YearsPaidInWindow(divs, cy)
    IN  {pr \in P \X P :
            /\ pr[1] < pr[2]
            /\ ~ \E c \in P : pr[1] < c /\ c < pr[2]
            /\ AnnualTotal(divs, pr[2]) > AnnualTotal(divs, pr[1])}

PaidPositive(divs, y) == y \in AllYears(divs) /\ AnnualTotal(divs, y) > 0

\* length of the maximal unbroken run of paid years ending at cy - 1
RunEndingBefore(divs, cy) ==
    CHOOSE n \in 0..cy :
        /\ \A k \in 1..n : PaidPositive(divs, cy - k)
        /\ ~PaidPositive(divs, cy - n - 1)

\* C5: countIncreases (calculate_dividend_increases) equals the number of
\* pairs of consecutive entries, in ascending order of the calendar years with
\* at least one payment inside [Y-12, Y), whose later annual total strictly
\* exceeds the earlier one: equal totals do not count, years outside the
\* window (Y included) are ignored, a year without payment is skipped.  The
\* example totals 1.0, 1.0, 1.2, 1.2, 1.5 give 2 and the empty series gives 0.
C5_CountIncreases ==
    ~IsNone(dividend_increases) =>
        /\ Val(dividend_increases) = Cardinality(IncreasePairs(dividends, current_year))
        /\ dividends = ExampleSeries(current_year) => Val(dividend_increases) = 2
        /\ dividends = <<>> => Val(dividend_increases) = 0

\* C5 witness: the example series has been counted.
C5_Witness ==
    /\ dividends = ExampleSeries(current_year)
    /\ dividend_increases = Some(2)

\* C5 second case reached: a gap year between two paid years whose totals rise.
C5_GapReached ==
    /\ ~IsNone(dividend_increases)
    /\ \E pr \in IncreasePairs(dividends, current_year) : pr[2] > pr[1] + 1

\* C6: countConsecutiveYears (calculate_consecutive_dividend_years) is the
\* length of the maximal unbroken run of calendar years ending at Y-1 whose
\* annual total is present and positive: 0 when Y-1 has no payment or the
\* series is empty, payments dated in Y itself do not count, and positive
\* payments in each of Y-10..Y-1 with nothing in Y-11 give exactly 10 whatever
\* precedes Y-11.
C6_ConsecutiveYears ==
    ~IsNone(consecutive_years) =>
        /\ Val(consecutive_years) = RunEndingBefore(dividends, current_year)
        /\ ~PaidPositive(dividends, current_year - 1) => Val(consecutive_years) = 0
        /\ ( /\ \A k \in 1..10 : PaidPositive(dividends, current_year - k)
             /\ (current_year - 11) \notin AllYears(dividends) )
           => Val(consecutive_years) = 10

\* C6 witness: ten paid years Y-10..Y-1, nothing in Y-11, a payment before
\* Y-11 and one in Y itself; the result is 10.
C6_Witness ==
    /\ consecutive_years = Some(10)
    /\ (current_year - 11) \notin AllYears(dividends)
    /\ \E y \in AllYears(dividends) : y < current_year - 11
    /\ current_year \in AllYears(dividends)


(***************************************************************************)
(* Historical yields: calculate_historical_yields                          *)
(***************************************************************************)
\* A yield is the exact rational num/den, den > 0.
Rat(n, d) == <<n, d>>
RatGE(a, b) == a[1] * b[2] >= b[1] * a[2]
RatLE(a, b) == RatGE(b, a)
RatEq(a, b) == a[1] * b[2] = b[1] * a[2]
\* the float 0.0
Zero == Rat(0, 1)

\* (annual_dividend / price) * 100
YieldAt(ad, price) == Rat(ad * 100, price)

\* [(annual_dividend / price) * 100 for price in prices if price > 0]
RECURSIVE Yields(_, _)
Yields(prices, ad) ==
    IF prices = <<>> THEN <<>>
    ELSE (IF Head(prices) > 0 THEN <<YieldAt(ad, Head(prices))>> ELSE <<>>)
         \o Yields(Tail(prices), ad)

\* max(yields), min(yields): the first greatest / smallest element
RECURSIVE MaxOf(_, _)
MaxOf(ys, best) ==
    IF ys = <<>> THEN best
    ELSE MaxOf(Tail(ys), IF RatGE(best, Head(ys)) THEN best ELSE Head(ys))

RECURSIVE MinOf(_, _)
MinOf(ys, best) ==
    IF ys = <<>> THEN best
    ELSE MinOf(Tail(ys), IF RatLE(best, Head(ys)) THEN best ELSE Head(ys))

\* Mutant: the comprehension without its "if price > 0" filter; a close of 0
\* then raises ZeroDivisionError and the except branch returns 0.0, 0.0.
calculate_historical_yields_NoFilter(h, ad) ==
    IF ~h.ok THEN <<Zero, Zero>>
    ELSE IF Len(h.Close) = 0 \/ ad = 0 THEN <<Zero, Zero>>
    ELSE IF \E i \in 1..Len(h.Close) : h.Close[i] = 0 THEN <<Zero, Zero>>
    ELSE LET yields == Yields(h.Close, ad)
         IN  <<MaxOf(Tail(yields), Head(yields)), MinOf(Tail(yields), Head(yields))>>

\* hist.ok = FALSE: stock.history raised, the except branch returns 0.0, 0.0
calculate_historical_yields(h, ad) ==
    IF ~h.ok THEN <<Zero, Zero>>
    ELSE IF Len(h.Close) = 0 \/ ad = 0 THEN <<Zero, Zero>>
    ELSE LET yields == Yields(h.Close, ad)
         IN  IF Len(yields) > 0
             THEN <<MaxOf(Tail(yields), Head(yields)), MinOf(Tail(yields), Head(yields))>>
             ELSE <<Zero, Zero>>

(***************************************************************************)
(* Inputs of calculate_historical_yields.                                  *)
(***************************************************************************)
RECURSIVE SeqsOfLen(_, _)
SeqsOfLen(S, n) ==
    IF n = 0 THEN {<<>>}
    ELSE {Append(q, x) : q \in SeqsOfLen(S, n - 1), x \in S}

SeqsUpTo(S, n) == UNION {SeqsOfLen(S, k) : k \in 0..n}

\* Section 8's example: closes 50 and 100
ExamplePrices == <<50, 100>>

\* closes of 0 (a bad tick) .. MaxPrice units
PriceInputs == SeqsUpTo(0..MaxPrice, MaxPrices) \cup {ExamplePrices}

HistoryInputs ==
    {[ok |-> TRUE, Close |-> c] : c \in PriceInputs}
    \cup {[ok |-> FALSE, Close |-> <<>>]}

DividendRateInputs == 0..MaxDividend

(***************************************************************************)
(* Specification SpecYield: calculate_historical_yields on every input.    *)
(***************************************************************************)
InitYield ==
    /\ hist \in HistoryInputs
    /\ annual_dividend \in DividendRateInputs
    /\ hist_yields = None
    /\ DivIdle /\ EpsIdle /\ AppIdle /\ ExtIdle

CalculateHistoricalYields ==
    /\ IsNone(hist_yields)
    /\ hist_yields' = Some(calculate_historical_yields(hist, annual_dividend))
    /\ UNCHANGED <<hist, annual_dividend, divVars, epsVars, appVars, extVars>>

NextYield == CalculateHistoricalYields

SpecYield == InitYield /\ [][NextYield]_vars

\* C7: computeRange (calculate_historical_yields) returns (max, min) of
\* annualDividend / price * 100 over exactly the prices > 0, so high >= low;
\* it returns (0.0, 0.0) when the price series is empty, when annualDividend
\* is 0 or when no price is > 0; prices [50, 100] with annualDividend 2 give
\* (4.0, 2.0).
C7_ComputeRange ==
    (~IsNone(hist_yields) /\ hist.ok) =>
        LET high == Val(hist_yields)[1]
            low == Val(hist_yields)[2]
            pos == {i \in 1..Len(hist.Close) : hist.Close[i] > 0}
        IN  /\ RatGE(high, low)
            /\ (hist.Close = <<>> \/ annual_dividend = 0 \/ pos = {})
                    => (high = Zero /\ low = Zero)
            /\ (annual_dividend # 0 /\ pos # {}) =>
                    /\ \E i \in pos : RatEq(high, YieldAt(annual_dividend, hist.Close[i]))
                    /\ \E i \in pos : RatEq(low, YieldAt(annual_dividend, hist.Close[i]))
                    /\ \A i \in pos :
                          /\ RatGE(high, YieldAt(annual_dividend, hist.Close[i]))
                          /\ RatLE(low, YieldAt(annual_dividend, hist.Close[i]))
            /\ (hist.Close = ExamplePrices /\ annual_dividend = 2)
                    => (RatEq(high, Rat(4, 1)) /\ RatEq(low, Rat(2, 1)))

\* C7 witness: the example range has been computed.
C7_Witness ==
    /\ hist = [ok |-> TRUE, Close |-> ExamplePrices]
    /\ annual_dividend = 2
    /\ hist_yields = Some(<<YieldAt(2, 50), YieldAt(2, 100)>>)

\* C7, the zero range: a positive dividend over closes none of which is > 0.
C7_NoPositivePriceReached ==
    /\ ~IsNone(hist_yields)
    /\ annual_dividend > 0
    /\ Len(hist.Close) > 0
    /\ \A i \in 1..Len(hist.Close) : hist.Close[i] = 0
    /\ hist_yields = Some(<<Zero, Zero>>)


(***************************************************************************)
(* EPS stages.  A stage function returns None, <<count>>, or Raised when   *)
(* an exception leaves it (none does: each body is inside try/except).     *)
(***************************************************************************)
Raised == <<"exception", "exception">>
IsRaised(r) == Len(r) = 2

\* str.upper() on the ticker symbols of the model
Upper(t) == CASE t = "ko" -> "KO"
              [] t = "Ko" -> "KO"
              [] OTHER -> t

\* str(n): the decimal digits of n >= 0, most significant first
RECURSIVE Str(_)
Str(n) == IF n < 10 THEN <<n>> ELSE Append(Str(n \div 10), n % 10)

\* s.zfill(width)
RECURSIVE ZFill(_, _)
ZFill(digits, width) ==
    IF Len(digits) >= width THEN digits ELSE ZFill(<<0>> \o digits, width)

\* zfill(10)
CikWidth == 10

\* for key, company in data.items():
\*     if company.get('ticker', '').upper() == ticker_upper: return cik
RECURSIVE CikScan(_, _)
CikScan(companies, ticker_upper) ==
    IF companies = <<>> THEN None
    ELSE IF Upper(Head(companies).ticker) = ticker_upper
         THEN Some(ZFill(Str(Head(companies).cik_str), CikWidth))
         ELSE CikScan(Tail(companies), ticker_upper)

\* data: what load_sec_company_tickers() returned, the entries in dict order
\* ({} when the download failed)
get_cik_from_sec(t, data) ==
    IF data = <<>> THEN None
    ELSE CikScan(data, Upper(t))

\* for entry in eps_data:
\*     if entry.get('form') == '10-K' and 'fy' in entry:
\*         if year not in annual_eps or abs(val) > abs(annual_eps[year]): ...
Abs(x) == IF x < 0 THEN 0 - x ELSE x

\* Mutant: a later entry of the same year always replaces the kept one.
RECURSIVE AnnualEps_LastWins(_, _)
AnnualEps_LastWins(eps_data, acc) ==
    IF eps_data = <<>> THEN acc
    ELSE LET entry == Head(eps_data)
             nxt == IF entry.form = "10-K" /\ ~IsNone(entry.fy)
                    THEN LET year == Val(entry.fy)
                         IN  IF year \notin DOMAIN acc
                             THEN acc @@ (year :> entry.val)
                             ELSE [acc EXCEPT ![year] = entry.val]
                    ELSE acc
         IN  AnnualEps_LastWins(Tail(eps_data), nxt)

RECURSIVE AnnualEps(_, _)
AnnualEps(eps_data, acc) ==
    IF eps_data = <<>> THEN acc
    ELSE LET entry == Head(eps_data)
             nxt == IF entry.form = "10-K" /\ ~IsNone(entry.fy)
                    THEN LET year == Val(entry.fy)
                         IN  IF year \notin DOMAIN acc
                             THEN acc @@ (year :> entry.val)
                             ELSE IF Abs(entry.val) > Abs(acc[year])
                                  THEN [acc EXCEPT ![year] = entry.val]
                                  ELSE acc
                    ELSE acc
         IN  AnnualEps(Tail(eps_data), nxt)

\* sorted(d.keys(), reverse=True)
RECURSIVE SortedDesc(_)
SortedDesc(S) ==
    IF S = {} THEN <<>>
    ELSE LET m == CHOOSE x \in S : \A y \in S : x >= y
         IN  <<m>> \o SortedDesc(S \ {m})

\* [:12]
RecentYears == 12
\* Mutant: the slice is missing.
Take_All(q, n) == q

Take(q, n) == IF Len(q) <= n THEN q ELSE SubSeq(q, 1, n)

\* for i in range(len(years) - 1):
\*     if eps[years[i]] > eps[years[i + 1]]: increases += 1
RECURSIVE EpsIncreasesLoop(_, _, _)
EpsIncreasesLoop(eps, years, i) ==
    IF i >= Len(years) THEN 0
    ELSE (IF eps[years[i]] > eps[years[i + 1]] THEN 1 ELSE 0)
         + EpsIncreasesLoop(eps, years, i + 1)

EpsFields == <<"EarningsPerShareDiluted", "EarningsPerShareBasic", "EarningsPerShare">>

\* for field in eps_fields: if field in us_gaap: eps_data = ...; if eps_data: break
RECURSIVE SelectEpsData(_, _, _)
SelectEpsData(us_gaap, i, eps_data) ==
    IF i > Len(EpsFields) THEN eps_data
    ELSE IF EpsFields[i] \in DOMAIN us_gaap
         THEN IF us_gaap[EpsFields[i]] # <<>>
              THEN us_gaap[EpsFields[i]]
              ELSE SelectEpsData(us_gaap, i + 1, <<>>)
         ELSE SelectEpsData(us_gaap, i + 1, eps_data)

\* resp: the answer of the companyfacts request.  kind "exception": the
\* request raised (network error, timeout); "non200": status_code != 200;
\* "no_facts": the JSON has no facts / us-gaap; "ok": us_gaap is the dict.
fetch_sec_edgar_eps_increases(t, data, resp) ==
    LET cik == get_cik_from_sec(t, data)
    IN  IF IsNone(cik) THEN None
        ELSE IF resp.kind = "exception" THEN None
        ELSE IF resp.kind = "non200" THEN None
        ELSE IF resp.kind = "no_facts" THEN None
        ELSE LET eps_data == SelectEpsData(resp.us_gaap, 1, <<>>)
             IN  IF eps_data = <<>> THEN None
                 ELSE LET annual_eps == AnnualEps(eps_data, EmptyDict)
                      IN  IF Cardinality(DOMAIN annual_eps) < 2 THEN None
                          ELSE Some(EpsIncreasesLoop(annual_eps,
                                      Take(SortedDesc(DOMAIN annual_eps), RecentYears), 1))

\* for year_str, eps_str in matches: try: ... if year not in eps_by_year: ...
\* except ValueError: continue        (row.valid = FALSE: float(eps_str) raises)
RECURSIVE EpsByYear(_, _)
EpsByYear(matches, acc) ==
    IF matches = <<>> THEN acc
    ELSE LET row == Head(matches)
             nxt == IF row.valid /\ row.year \notin DOMAIN acc
                    THEN acc @@ (row.year :> row.v2)
                    ELSE acc
         IN  EpsByYear(Tail(matches), nxt)

\* Mutant: the body without its try/except: a request that raises leaves the
\* function.
fetch_macrotrends_eps_increases_NoExcept(resp) ==
    IF resp.kind = "exception" THEN Raised
    ELSE IF resp.kind \in {"non200", "no_eps_url", "eps_non200", "no_match"} THEN None
    ELSE LET eps_by_year == EpsByYear(resp.matches, EmptyDict)
         IN  IF Cardinality(DOMAIN eps_by_year) < 2 THEN None
             ELSE Some(EpsIncreasesLoop(eps_by_year,
                         Take(SortedDesc(DOMAIN eps_by_year), RecentYears), 1))

\* resp: the answers of the two page requests.  kind "exception": a request
\* raised; "non200": the first page's status; "no_eps_url": the final URL is
\* no /stocks/charts/ page; "eps_non200": the EPS page's status; "no_match":
\* the page has no originalData array; "ok": matches are the parsed rows.
fetch_macrotrends_eps_increases(resp) ==
    IF resp.kind = "exception" THEN None
    ELSE IF resp.kind = "non200" THEN None
    ELSE IF resp.kind = "no_eps_url" THEN None
    ELSE IF resp.kind = "eps_non200" THEN None
    ELSE IF resp.kind = "no_match" THEN None
    ELSE LET eps_by_year == EpsByYear(resp.matches, EmptyDict)
         IN  IF Cardinality(DOMAIN eps_by_year) < 2 THEN None
             ELSE Some(EpsIncreasesLoop(eps_by_year,
                         Take(SortedDesc(DOMAIN eps_by_year), RecentYears), 1))

\* the function body is "return None"
fetch_yfinance_eps_increases(stk) == None

\* int(dividend_increases * 0.7): the float product truncated.  For the counts
\* 0..12 that the 12-year window allows it equals floor(7 * d / 10).
IntSevenTenths(d) == (7 * d) \div 10

\* Mutant: the estimate without its floor of 3.
estimate_from_dividends_NoFloor(stk, divs, cy) ==
    IF ~stk THEN None
    ELSE IF Len(divs) > 0
         THEN LET d == calculate_dividend_increases(divs, cy)
              IN  IF d >= 3 THEN Some(IntSevenTenths(d)) ELSE None
         ELSE None

\* if stock: dividends = stock.dividends; if len(dividends) > 0:
\*     if dividend_increases >= 3: eps_increases = max(3, int(d * 0.7))
estimate_from_dividends(stk, divs, cy) ==
    IF ~stk THEN None
    ELSE IF Len(divs) > 0
         THEN LET dividend_incs == calculate_dividend_increases(divs, cy)
              IN  IF dividend_incs >= 3
                  THEN Some(Max2(3, IntSevenTenths(dividend_incs)))
                  ELSE None
         ELSE None

(***************************************************************************)
(* fetch_eps_increases_multi_source, one step per stage.                   *)
(***************************************************************************)
Return(count, label) == [pc |-> "done", result |-> Some(<<count, label>>)]
Continue(next) == [pc |-> next, result |-> None]
Propagate == [pc |-> "raised", result |-> None]

\* if eps_increases is not None: return eps_increases, "yfinance"
AfterYfinance(r) ==
    IF IsRaised(r) THEN Propagate
    ELSE IF ~IsNone(r) THEN Return(Val(r), "yfinance")
    ELSE Continue("sec_edgar")

\* Mutant: the early return after the SEC stage is missing.
AfterSecEdgar_NoReturn(r) ==
    IF IsRaised(r) THEN Propagate ELSE Continue("macrotrends")

\* if eps_increases is not None: return eps_increases, "SEC EDGAR"
AfterSecEdgar(r) ==
    IF IsRaised(r) THEN Propagate
    ELSE IF ~IsNone(r) THEN Return(Val(r), "SEC EDGAR")
    ELSE Continue("macrotrends")

\* if eps_increases is not None: return eps_increases, "Macrotrends"
AfterMacrotrends(r) ==
    IF IsRaised(r) THEN Propagate
    ELSE IF ~IsNone(r) THEN Return(Val(r), "Macrotrends")
    ELSE Continue("estimate")

\* return eps_increases, "Estimated from dividends" / return 0, "No data available"
AfterEstimate(r) ==
    IF IsRaised(r) THEN Propagate
    ELSE IF ~IsNone(r) THEN Return(Val(r), "Estimated from dividends")
    ELSE Return(0, "No data available")

Attempt(stage, outcome, r) == [stage |-> stage, outcome |-> outcome, result |-> r]


(***************************************************************************)
(* Inputs of the EPS chain: what the outside world answers.                *)
(***************************************************************************)
Tickers == {"KO", "ko", "XYZ"}

\* the only call, in fetch_stock_data, passes yf.Ticker(ticker): an object,
\* hence truthy
StockHandles == {TRUE}

\* load_sec_company_tickers(): {} after a failed download, else the directory
DirectoryInputs ==
    { <<>>,
      << [ticker |-> "ABC", cik_str |-> 1800], [ticker |-> "KO", cik_str |-> 21344] >> }

\* arbitrary short lists of us-gaap entries; fy = None: the entry has no 'fy'
EntryInputs ==
    {[form |-> f, fy |-> y, val |-> v] :
        f \in {"10-K", "10-Q"}, y \in {None, Some(1), Some(2)}, v \in {0 - 2, 1}}

\* annual reports of fiscal years 1..n, the EPS rising every `step` years
RegularReports(n, step) ==
    [i \in 1..n |-> [form |-> "10-K", fy |-> Some(i), val |-> 1 + ((i - 1) \div step)]]

EpsDataInputs ==
    SeqsUpTo(EntryInputs, MaxEntries)
    \cup {RegularReports(n, k) : n \in 2..MaxEpsYears, k \in 1..MaxStep}

UsGaapInputs ==
    {(EpsFields[1] :> e) : e \in EpsDataInputs}
    \cup {(EpsFields[2] :> e) : e \in EpsDataInputs}
    \cup {(EpsFields[1] :> <<>>) @@ (EpsFields[3] :> e) : e \in EpsDataInputs}
    \cup {EmptyDict}

SecErrorKinds == {"exception", "non200", "no_facts"}

SecResponses ==
    {[kind |-> k, us_gaap |-> EmptyDict] : k \in SecErrorKinds}
    \cup {[kind |-> "ok", us_gaap |-> g] : g \in UsGaapInputs}

\* rows matched in the page; valid = FALSE: the value text is no float
RowInputs ==
    {[year |-> y, v2 |-> v, valid |-> b] : y \in {1, 2}, v \in {0 - 2, 1}, b \in BOOLEAN}

\* the page lists the most recent year first
RegularRows(n, step) ==
    [i \in 1..n |-> [year |-> n + 1 - i, v2 |-> 1 + ((n - i) \div step), valid |-> TRUE]]

MatchesInputs ==
    SeqsUpTo(RowInputs, MaxEntries)
    \cup {RegularRows(n, k) : n \in 2..MaxEpsYears, k \in 1..MaxStep}

MacroErrorKinds == {"exception", "non200", "no_eps_url", "eps_non200", "no_match"}

MacroResponses ==
    {[kind |-> k, matches |-> <<>>] : k \in MacroErrorKinds}
    \cup {[kind |-> "ok", matches |-> m] : m \in MatchesInputs}

\* dividend series of the chain's runs: none, the example, and regular
\* series ending last year
EpsDividendInputs(cy) ==
    {<<>>, ExampleSeries(cy)}
    \cup {RegularSeries(f, cy - 1, k, 0) : f \in 1..(cy - 1), k \in 1..MaxStep}

(***************************************************************************)
(* Specification SpecEps: one run of fetch_eps_increases_multi_source.     *)
(***************************************************************************)
InitEps ==
    /\ ticker \in Tickers
    /\ stock \in StockHandles
    /\ eps_pc = "yfinance"
    /\ eps_attempts = <<>>
    /\ eps_result = None
    /\ current_year = FirstReferenceYear
    /\ dividends \in EpsDividendInputs(current_year)
    /\ dividend_increases = None
    /\ consecutive_years = None
    /\ YieldIdle /\ AppIdle /\ ExtIdle

EpsStep(step, attempt) ==
    /\ eps_pc' = step.pc
    /\ eps_result' = step.result
    /\ eps_attempts' = eps_attempts \o attempt
    /\ UNCHANGED <<ticker, stock, divVars, yieldVars, appVars, extVars>>

\* if stock: eps_increases = fetch_yfinance_eps_increases(stock) ...
TryYfinance ==
    /\ eps_pc = "yfinance"
    /\ IF stock
       THEN LET r == fetch_yfinance_eps_increases(stock)
            IN  EpsStep(AfterYfinance(r), <<Attempt("yfinance", "none", r)>>)
       ELSE EpsStep(Continue("sec_edgar"), <<>>)

\* eps_increases = fetch_sec_edgar_eps_increases(ticker) ...
\* The companyfacts request is made only when the CIK was found.
TrySecEdgar ==
    /\ eps_pc = "sec_edgar"
    /\ \E data \in DirectoryInputs :
          IF IsNone(get_cik_from_sec(ticker, data))
          THEN LET r == fetch_sec_edgar_eps_increases(ticker, data,
                                [kind |-> "exception", us_gaap |-> EmptyDict])
               IN  EpsStep(AfterSecEdgar(r), <<Attempt("SEC EDGAR", "no_cik", r)>>)
          ELSE \E resp \in SecResponses :
               LET r == fetch_sec_edgar_eps_increases(ticker, data, resp)
               IN  EpsStep(AfterSecEdgar(r), <<Attempt("SEC EDGAR", resp.kind, r)>>)

\* eps_increases = fetch_macrotrends_eps_increases(ticker) ...
TryMacrotrends ==
    /\ eps_pc = "macrotrends"
    /\ \E resp \in MacroResponses :
          LET r == fetch_macrotrends_eps_increases(resp)
          IN  EpsStep(AfterMacrotrends(r), <<Attempt("Macrotrends", resp.kind, r)>>)

\* Last resort: estimate from dividend growth; return 0 if all sources fail
EstimateFromDividends ==
    /\ eps_pc = "estimate"
    /\ LET r == estimate_from_dividends(stock, dividends, current_year)
       IN  EpsStep(AfterEstimate(r),
                   IF stock THEN <<Attempt("Estimated from dividends", "none", r)>> ELSE <<>>)

NextEps ==
    \/ TryYfinance
    \/ TrySecEdgar
    \/ TryMacrotrends
    \/ EstimateFromDividends

SpecEps == InitEps /\ [][NextEps]_vars


\* ------------------------------------------------------------------------
\* Claims about the chain.
\* ------------------------------------------------------------------------
StageOrder == <<"yfinance", "SEC EDGAR", "Macrotrends", "Estimated from dividends">>

ErrorOutcomes ==
    {"exception", "non200", "no_facts", "no_cik", "no_eps_url", "eps_non200", "no_match"}

SourceLabels == {StageOrder[i] : i \in 1..4} \cup {"No data available"}

\* where the chain stands after the attempts logged so far
PcAfterAttempts ==
    IF eps_attempts = <<>> THEN "yfinance"
    ELSE IF ~IsNone(eps_attempts[Len(eps_attempts)].result) THEN "done"
    ELSE CASE Len(eps_attempts) = 1 -> "sec_edgar"
           [] Len(eps_attempts) = 2 -> "macrotrends"
           [] Len(eps_attempts) = 3 -> "estimate"
           [] OTHER -> "done"

\* C2: the stages are attempted strictly in the order provider earnings
\* history, structured registry, secondary web source, heuristic estimate; a
\* stage is invoked only after every earlier stage was attempted and returned
\* no data, none is invoked after the first that returns a count, and the
\* returned label names exactly that stage.  With stages 1 and 2 empty and 3
\* increases parsed by stage 3 the result is (3, secondary source) and stages
\* 1 and 2 were attempted before stage 3 ran.
C2_StageOrder ==
    LET n == Len(eps_attempts)
    IN  /\ n <= 4
        /\ \A i \in 1..n : eps_attempts[i].stage = StageOrder[i]
        /\ \A i \in 1..(n - 1) : IsNone(eps_attempts[i].result)
        /\ eps_pc = "sec_edgar" => n = 1
        /\ eps_pc = "macrotrends" => n = 2
        /\ eps_pc = "estimate" => n = 3
        /\ eps_pc = "done" =>
              /\ n >= 1
              /\ IF ~IsNone(eps_attempts[n].result)
                 THEN eps_result = Some(<<Val(eps_attempts[n].result), eps_attempts[n].stage>>)
                 ELSE n = 4 /\ Val(eps_result)[2] = "No data available"
        /\ (eps_pc = "done" /\ n >= 3 /\ eps_attempts[3].result = Some(3)) =>
              /\ eps_result = Some(<<3, "Macrotrends">>)
              /\ n = 3
              /\ eps_attempts[1] = Attempt("yfinance", "none", None)
              /\ eps_attempts[2].stage = "SEC EDGAR" /\ IsNone(eps_attempts[2].result)

\* C2 witness: stages 1 and 2 returned nothing, stage 3 parsed 3 increases.
C2_Witness ==
    /\ eps_pc = "done"
    /\ Len(eps_attempts) = 3
    /\ IsNone(eps_attempts[1].result) /\ IsNone(eps_attempts[2].result)
    /\ eps_attempts[3] = Attempt("Macrotrends", "ok", Some(3))
    /\ eps_result = Some(<<3, "Macrotrends">>)

\* C3: whatever each stage meets (a count, no data, a network error or
\* timeout, a non-200 response, a parse failure) the chain ends with a defined
\* (count >= 0, label) and never passes a failure to its caller: a stage that
\* errors is treated like one that returned no data and control passes to the
\* next stage; with every stage empty the result is (0, unavailable).
C3_NeverFails ==
    LET n == Len(eps_attempts)
    IN  /\ eps_pc # "raised"
        /\ eps_pc = PcAfterAttempts
        /\ eps_pc # "done" => n < 4
        /\ \A i \in 1..n :
              /\ ~IsRaised(eps_attempts[i].result)
              /\ eps_attempts[i].outcome \in ErrorOutcomes => IsNone(eps_attempts[i].result)
              /\ ~IsNone(eps_attempts[i].result) => Val(eps_attempts[i].result) \in Nat
        /\ eps_pc = "done" =>
              /\ ~IsNone(eps_result)
              /\ Val(eps_result)[1] \in Nat
              /\ Val(eps_result)[2] \in SourceLabels
        /\ (eps_pc = "done" /\ \A i \in 1..n : IsNone(eps_attempts[i].result)) =>
              eps_result = Some(<<0, "No data available">>)

\* C3 witness: both network stages raised, the estimate had nothing, and the
\* chain still returned (0, unavailable).
C3_Witness ==
    /\ eps_pc = "done"
    /\ Len(eps_attempts) = 4
    /\ eps_attempts[2].outcome = "exception"
    /\ eps_attempts[3].outcome = "exception"
    /\ eps_result = Some(<<0, "No data available">>)

\* C4: when no other stage produced data the heuristic stage is decided by
\* the 12-year dividend-increase count d alone: d >= 3 gives
\* (max(3, floor(0.7 d)), heuristic estimate), e.g. d = 5 gives 3; d < 3 gives
\* no data.
C4_Heuristic ==
    (eps_pc = "done" /\ Len(eps_attempts) = 4) =>
        LET d == Cardinality(IncreasePairs(dividends, current_year))
        IN  IF d >= 3
            THEN \E q \in 0..d :
                    /\ 10 * q <= 7 * d /\ 7 * d < 10 * (q + 1)
                    /\ eps_result = Some(<<Max2(3, q), "Estimated from dividends">>)
                    /\ d = 5 => Val(eps_result)[1] = 3
            ELSE /\ IsNone(eps_attempts[4].result)
                 /\ eps_result = Some(<<0, "No data available">>)

\* C4 witness: five dividend increases, nothing from the other stages, and
\* the estimate (3, heuristic).
C4_Witness ==
    /\ eps_pc = "done"
    /\ Len(eps_attempts) = 4
    /\ Cardinality(IncreasePairs(dividends, current_year)) = 5
    /\ eps_result = Some(<<3, "Estimated from dividends">>)

\* C4, above the floor: nine increases give floor(6.3) = 6.
C4_AboveFloorReached ==
    /\ eps_pc = "done"
    /\ Cardinality(IncreasePairs(dividends, current_year)) = 9
    /\ eps_result = Some(<<6, "Estimated from dividends">>)


(***************************************************************************)
(* determine_dividend_status                                               *)
(***************************************************************************)
\* Mutant: the thresholds taken as exclusive bounds.
determine_dividend_status_Exclusive(years) ==
    IF years > 50 THEN "Dividend King"
    ELSE IF years > 25 THEN "Dividend Aristocrat"
    ELSE IF years > 10 THEN "Dividend Achiever"
    ELSE IF years > 5 THEN "Dividend Contender"
    ELSE "None"

determine_dividend_status(years) ==
    IF years >= 50 THEN "Dividend King"
    ELSE IF years >= 25 THEN "Dividend Aristocrat"
    ELSE IF years >= 10 THEN "Dividend Achiever"
    ELSE IF years >= 5 THEN "Dividend Contender"
    ELSE "None"

(***************************************************************************)
(* fetch_eps_increases_multi_source as one call: the stages of SpecEps     *)
(* run to the end on given answers of the outside world.                   *)
(***************************************************************************)
fetch_eps_increases_multi_source(t, stk, divs, cy, data, sec, macro) ==
    LET s1 == IF stk THEN AfterYfinance(fetch_yfinance_eps_increases(stk))
              ELSE Continue("sec_edgar")
        s2 == AfterSecEdgar(fetch_sec_edgar_eps_increases(t, data, sec))
        s3 == AfterMacrotrends(fetch_macrotrends_eps_increases(macro))
        s4 == AfterEstimate(estimate_from_dividends(stk, divs, cy))
    IN  IF s1.pc # "sec_edgar" THEN s1
        ELSE IF s2.pc # "macrotrends" THEN s2
        ELSE IF s3.pc # "estimate" THEN s3
        ELSE s4

(***************************************************************************)
(* fetch_stock_data                                                        *)
(***************************************************************************)
\* Mutant: an estimated count is entered one lower than a reported one.
fetch_stock_data_DiscountEstimate(t, info, holders, divs, h, cy, data, sec, macro) ==
    IF ~info.ok THEN None ELSE
    LET consec == calculate_consecutive_dividend_years(divs, cy)
        hy == calculate_historical_yields(h, info.dividendRate)
        eps == fetch_eps_increases_multi_source(t, TRUE, divs, cy, data, sec, macro)
    IN  IF eps.pc = "raised" THEN None
        ELSE Some([ ticker |-> t,
                    current_price |-> info.currentPrice,
                    annual_dividend |-> info.dividendRate,
                    shares_outstanding |-> info.sharesOutstanding,
                    institutional_holders |-> holders,
                    dividend_increases |-> calculate_dividend_increases(divs, cy),
                    consecutive_years |-> consec,
                    hist_high_yield |-> hy[1],
                    hist_low_yield |-> hy[2],
                    eps_increases |-> IF Val(eps.result)[2] = "Estimated from dividends"
                                      THEN Val(eps.result)[1] - 1
                                      ELSE Val(eps.result)[1],
                    dividend_status |-> determine_dividend_status(consec),
                    currency |-> info.currency ])

\* info: the provider's record; holders: len(stock.institutional_holders) or 0;
\* shares are in tenths of a million.
\* info.ok = FALSE: stock.info raised; the except branch returns None.
fetch_stock_data(t, info, holders, divs, h, cy, data, sec, macro) ==
    IF ~info.ok THEN None ELSE
    LET current_price == info.currentPrice
        ad == info.dividendRate
        shares_outstanding == info.sharesOutstanding
        div_incs == calculate_dividend_increases(divs, cy)
        consec == calculate_consecutive_dividend_years(divs, cy)
        hy == calculate_historical_yields(h, ad)
        eps == fetch_eps_increases_multi_source(t, TRUE, divs, cy, data, sec, macro)
    IN  IF eps.pc = "raised" THEN None
        ELSE Some([ ticker |-> t,
                    current_price |-> current_price,
                    annual_dividend |-> ad,
                    shares_outstanding |-> shares_outstanding,
                    institutional_holders |-> holders,
                    dividend_increases |-> div_incs,
                    consecutive_years |-> consec,
                    hist_high_yield |-> hy[1],
                    hist_low_yield |-> hy[2],
                    eps_increases |-> Val(eps.result)[1],
                    dividend_status |-> determine_dividend_status(consec),
                    currency |-> info.currency ])

(***************************************************************************)
(* analyze_stock                                                           *)
(***************************************************************************)
Failed(name, actual, required) == [name |-> name, actual |-> actual, required |-> required]

\* one "if actual >= required: passed.append(name) else: failed.append(...)"
Check(lists, name, actual, required) ==
    IF actual >= required
    THEN [lists EXCEPT !.passed = Append(@, name)]
    ELSE [lists EXCEPT !.failed = Append(@, Failed(name, actual, required))]

\* Mutant: the EPS criterion compared with > in place of >=.
CheckCriteria_StrictEps(sd, criteria) ==
    LET c0 == [passed |-> <<>>, failed |-> <<>>]
        c1 == Check(c0, "Dividend Increases", sd.dividend_increases, criteria.dividend_increases_min)
        c2 == Check(c1, "Shares Outstanding", sd.shares_outstanding, criteria.shares_outstanding_min)
        c3 == Check(c2, "Institutional Holders", sd.institutional_holders, criteria.institutional_holders_min)
        c4 == Check(c3, "EPS Increases", sd.eps_increases, criteria.eps_increases_min + 1)
        c5 == Check(c4, "Consecutive Dividend Years", sd.consecutive_years, criteria.consecutive_dividend_min)
    IN  [c5 EXCEPT !.passed = Append(@, "Dividend Status (Optional)")]

\* criteria 1 to 5 in order, then "Dividend Status (Optional)" always passed
CheckCriteria(sd, criteria) ==
    LET c0 == [passed |-> <<>>, failed |-> <<>>]
        c1 == Check(c0, "Dividend Increases", sd.dividend_increases, criteria.dividend_increases_min)
        c2 == Check(c1, "Shares Outstanding", sd.shares_outstanding, criteria.shares_outstanding_min)
        c3 == Check(c2, "Institutional Holders", sd.institutional_holders, criteria.institutional_holders_min)
        c4 == Check(c3, "EPS Increases", sd.eps_increases, criteria.eps_increases_min)
        c5 == Check(c4, "Consecutive Dividend Years", sd.consecutive_years, criteria.consecutive_dividend_min)
    IN  [c5 EXCEPT !.passed = Append(@, "Dividend Status (Optional)")]

\* (annual_dividend / current_price) * 100 if current_price > 0 else 0
CurrentYield(sd) ==
    IF sd.current_price > 0 THEN YieldAt(sd.annual_dividend, sd.current_price) ELSE Zero

\* y * 0.80, y * 0.70, y * 1.20
Times080(y) == Rat(y[1] * 4, y[2] * 5)
Times070(y) == Rat(y[1] * 7, y[2] * 10)
Times120(y) == Rat(y[1] * 6, y[2] * 5)

Signal(r, z) == [recommendation |-> r, zone |-> z]

\* Mutant: the SELL test placed before the WATCH test.
Valuation_SellBeforeWatch(cur, buy, watch, sell) ==
    IF RatGE(cur, buy) THEN Signal("BUY", "Buy Zone")
    ELSE IF RatLE(cur, sell) THEN Signal("SELL", "Sell Zone")
    ELSE IF RatGE(cur, watch) THEN Signal("WATCH", "Watch Zone")
    ELSE Signal("HOLD", "Hold Zone")

\* if current_yield >= buy_yield ... elif >= watch_yield ... elif <= sell_yield ... else
Valuation(cur, buy, watch, sell) ==
    IF RatGE(cur, buy) THEN Signal("BUY", "Buy Zone")
    ELSE IF RatGE(cur, watch) THEN Signal("WATCH", "Watch Zone")
    ELSE IF RatLE(cur, sell) THEN Signal("SELL", "Sell Zone")
    ELSE Signal("HOLD", "Hold Zone")

\* Mutant: the override is missing.
QualityGate_Missing(quality_ok, signal) == signal

\* if not quality_ok: recommendation = "DOES NOT QUALIFY"; zone = "Failed Quality"
QualityGate(quality_ok, signal) ==
    IF ~quality_ok THEN Signal("DOES NOT QUALIFY", "Failed Quality") ELSE signal

analyze_stock(sd, mode) ==
    LET criteria == get_regional_criteria(sd.currency, mode)
        lists == CheckCriteria(sd, criteria)
        quality_ok == Len(lists.failed) = 0
        current_yield == CurrentYield(sd)
        buy_yield == Times080(sd.hist_high_yield)
        watch_yield == Times070(sd.hist_high_yield)
        sell_yield == Times120(sd.hist_low_yield)
        signal == QualityGate(quality_ok,
                              Valuation(current_yield, buy_yield, watch_yield, sell_yield))
    IN  [ quality_ok |-> quality_ok,
          passed_criteria |-> lists.passed,
          failed_criteria |-> lists.failed,
          current_yield |-> current_yield,
          buy_yield |-> buy_yield,
          watch_yield |-> watch_yield,
          sell_yield |-> sell_yield,
          recommendation |-> signal.recommendation,
          zone |-> signal.zone,
          criteria |-> criteria ]


(***************************************************************************)
(* Inputs of one analysis: what the market-data provider and the EPS       *)
(* sources answer.                                                         *)
(***************************************************************************)
AppTickers == {"KO", "XYZ"}

\* current price, in the units of the closes below
AppPriceInputs == {0, 7, 9, 12, 20}

\* annual dividend rate: none, or 2 units
AppDividendRates == {0, 2}

\* shares outstanding: 3.0, 5.0 and 60.0 million, in tenths of a million
AppSharesInputs == {30, 50, 600}

\* "EUR" is in no regional table
AppCurrencies == {"USD", "GBP", "CAD", "EUR"}

AppInfoInputs ==
    {[ok |-> TRUE, currentPrice |-> p, dividendRate |-> d, sharesOutstanding |-> so,
      currency |-> c] :
        p \in AppPriceInputs, d \in AppDividendRates, so \in AppSharesInputs,
        c \in AppCurrencies}
    \cup {[ok |-> FALSE, currentPrice |-> 0, dividendRate |-> 0, sharesOutstanding |-> 0,
           currency |-> "USD"]}

AppHoldersInputs == {0, 3, 5}

\* no dividends, or one payment a year over the last 4, 6 or 13 years, rising
\* every year or every MaxStep years
AppDividendInputs(cy) ==
    {<<>>} \cup {RegularSeries(cy - n, cy - 1, k, 0) : n \in {4, 6, 13}, k \in {1, MaxStep}}

AppHistoryInputs ==
    {[ok |-> TRUE, Close |-> c] : c \in {<<>>, <<7>>, <<7, 9>>, <<7, 20>>}}
    \cup {[ok |-> FALSE, Close |-> <<>>]}

AppSecResponses ==
    {[kind |-> "exception", us_gaap |-> EmptyDict]}
    \cup {[kind |-> "ok", us_gaap |-> (EpsFields[1] :> RegularReports(n, 1))] : n \in {4, 5}}

AppMacroResponses ==
    {[kind |-> "exception", matches |-> <<>>], [kind |-> "ok", matches |-> RegularRows(4, 1)]}

AppDirectory == << [ticker |-> "ABC", cik_str |-> 1800], [ticker |-> "KO", cik_str |-> 21344] >>

ScreeningModes == {"Balanced", "Aggressive"}

(***************************************************************************)
(* Specification Spec: one analysis, fetch_stock_data then analyze_stock.  *)
(***************************************************************************)
Init ==
    /\ stock_data = None
    /\ screening_mode = "Balanced"
    /\ analysis = None
    /\ DivIdle /\ YieldIdle /\ EpsIdle /\ ExtIdle

FetchStockData ==
    /\ IsNone(stock_data)
    /\ \E t \in AppTickers, info \in AppInfoInputs, holders \in AppHoldersInputs,
          divs \in AppDividendInputs(current_year), h \in AppHistoryInputs,
          sec \in AppSecResponses, macro \in AppMacroResponses :
          stock_data' = fetch_stock_data(t, info, holders, divs, h, current_year,
                                         AppDirectory, sec, macro)
    /\ UNCHANGED <<screening_mode, analysis, divVars, yieldVars, epsVars, extVars>>

AnalyzeStock ==
    /\ ~IsNone(stock_data)
    /\ IsNone(analysis)
    /\ \E mode \in ScreeningModes :
          /\ screening_mode' = mode
          /\ analysis' = Some(analyze_stock(Val(stock_data), mode))
    /\ UNCHANGED <<stock_data, divVars, yieldVars, epsVars, extVars>>

Next ==
    \/ FetchStockData
    \/ AnalyzeStock

Spec == Init /\ [][Next]_vars

\* ------------------------------------------------------------------------
\* Claims about analyze_stock.
\* ------------------------------------------------------------------------
Analysed == ~IsNone(analysis)
SD == Val(stock_data)
AN == Val(analysis)

RequiredNames ==
    << "Dividend Increases", "Shares Outstanding", "Institutional Holders",
       "EPS Increases", "Consecutive Dividend Years" >>

\* the actual value and the threshold of each required criterion
ActualOf(nm) ==
    CASE nm = "Dividend Increases" -> SD.dividend_increases
      [] nm = "Shares Outstanding" -> SD.shares_outstanding
      [] nm = "Institutional Holders" -> SD.institutional_holders
      [] nm = "EPS Increases" -> SD.eps_increases
      [] nm = "Consecutive Dividend Years" -> SD.consecutive_years

RequiredOf(nm) ==
    CASE nm = "Dividend Increases" -> AN.criteria.dividend_increases_min
      [] nm = "Shares Outstanding" -> AN.criteria.shares_outstanding_min
      [] nm = "Institutional Holders" -> AN.criteria.institutional_holders_min
      [] nm = "EPS Increases" -> AN.criteria.eps_increases_min
      [] nm = "Consecutive Dividend Years" -> AN.criteria.consecutive_dividend_min

Passes(nm) == ActualOf(nm) >= RequiredOf(nm)
Fails(nm) == ~Passes(nm)

RatLT(a, b) == ~RatGE(a, b)

\* C1: whenever analyze returns quality_ok = false the recommendation is
\* DOES NOT QUALIFY, whatever yield band the current yield falls in; a
\* snapshot failing exactly one required criterion with current yield at or
\* above the buy yield is DOES NOT QUALIFY, never BUY.
C1_QualityGate ==
    Analysed =>
        /\ ~AN.quality_ok => AN.recommendation = "DOES NOT QUALIFY"
        /\ (\E nm \in {RequiredNames[i] : i \in 1..5} : Fails(nm))
              => (AN.recommendation = "DOES NOT QUALIFY" /\ AN.zone = "Failed Quality")

\* C1 witness: exactly one criterion failed, the yield is in the buy band,
\* the recommendation is DOES NOT QUALIFY.
C1_Witness ==
    /\ Analysed
    /\ Len(AN.failed_criteria) = 1
    /\ SD.annual_dividend > 0 /\ SD.hist_high_yield # Zero
    /\ RatGE(AN.current_yield, AN.buy_yield)
    /\ AN.recommendation = "DOES NOT QUALIFY"

\* C8 (the claim as stated): with a historical range of (0.0, 0.0) a snapshot
\* passing all five criteria gets no BUY, WATCH or SELL from thresholds that
\* are all zero.
C8_ZeroRangeNoSignal ==
    (Analysed /\ AN.quality_ok /\ SD.hist_high_yield = Zero /\ SD.hist_low_yield = Zero)
        => AN.recommendation \notin {"BUY", "WATCH", "SELL"}

\* C9: with quality_ok true, currentYield = annualDividend / currentPrice *
\* 100 (0 when the price is <= 0), buyYield = 0.80 high, watchYield = 0.70
\* high, sellYield = 1.20 low, and exactly one recommendation is chosen in the
\* order BUY (current >= buy), WATCH (current >= watch), SELL (current <=
\* sell), HOLD; WATCH wins over SELL when both hold and HOLD only when
\* sell < current < watch.
C9_Recommendation ==
    (Analysed /\ AN.quality_ok) =>
        LET cur == AN.current_yield
            buy == AN.buy_yield
            watch == AN.watch_yield
            sell == AN.sell_yield
            high == SD.hist_high_yield
            low == SD.hist_low_yield
        IN  /\ IF SD.current_price > 0
               THEN cur[1] * SD.current_price = 100 * SD.annual_dividend * cur[2]
               ELSE cur = Zero
            /\ 100 * buy[1] * high[2] = 80 * high[1] * buy[2]
            /\ 100 * watch[1] * high[2] = 70 * high[1] * watch[2]
            /\ 100 * sell[1] * low[2] = 120 * low[1] * sell[2]
            /\ AN.recommendation \in {"BUY", "WATCH", "SELL", "HOLD"}
            /\ AN.recommendation = "BUY" <=> RatGE(cur, buy)
            /\ AN.recommendation = "WATCH" <=> (RatLT(cur, buy) /\ RatGE(cur, watch))
            /\ AN.recommendation = "SELL" <=>
                    (RatLT(cur, buy) /\ RatLT(cur, watch) /\ RatLE(cur, sell))
            /\ AN.recommendation = "HOLD" => (RatLT(sell, cur) /\ RatLT(cur, watch))

\* C9 witness: a qualifying snapshot whose yield meets both the WATCH and the
\* SELL condition, reported as WATCH.
C9_Witness ==
    /\ Analysed /\ AN.quality_ok
    /\ RatLT(AN.current_yield, AN.buy_yield)
    /\ RatGE(AN.current_yield, AN.watch_yield)
    /\ RatLE(AN.current_yield, AN.sell_yield)
    /\ AN.recommendation = "WATCH"

\* C9, the other bands: HOLD and SELL are reached for qualifying snapshots.
C9_HoldReached == Analysed /\ AN.quality_ok /\ AN.recommendation = "HOLD"
C9_SellReached == Analysed /\ AN.quality_ok /\ AN.recommendation = "SELL"

\* C10: the five required criteria are evaluated in the fixed order dividend
\* increases, shares outstanding, institutional holders, EPS increases,
\* consecutive dividend years, each as actual >= threshold; each is recorded
\* exactly once, in the passed or in the failed list, in that order;
\* quality_ok holds iff all five pass; the dividend-status entry is always
\* the last of the passed list and never changes quality_ok.
C10_Criteria ==
    Analysed =>
        /\ AN.passed_criteria
              = SelectSeq(RequiredNames, Passes) \o <<"Dividend Status (Optional)">>
        /\ [i \in 1..Len(AN.failed_criteria) |-> AN.failed_criteria[i].name]
              = SelectSeq(RequiredNames, Fails)
        /\ \A i \in 1..Len(AN.failed_criteria) :
              /\ AN.failed_criteria[i].actual = ActualOf(AN.failed_criteria[i].name)
              /\ AN.failed_criteria[i].required = RequiredOf(AN.failed_criteria[i].name)
        /\ AN.quality_ok <=> \A i \in 1..5 : Passes(RequiredNames[i])
        /\ AN.criteria = get_regional_criteria(SD.currency, screening_mode)

\* C10 witness: two criteria failed, three passed, the status label is None
\* and its entry is still in the passed list.
C10_Witness ==
    /\ Analysed
    /\ Len(AN.failed_criteria) = 2
    /\ Len(AN.passed_criteria) = 4
    /\ SD.dividend_status = "None"
    /\ AN.passed_criteria[4] = "Dividend Status (Optional)"

\* C10, the boundary: an EPS count equal to its threshold passes.
C10_BoundaryReached ==
    /\ Analysed
    /\ SD.eps_increases = AN.criteria.eps_increases_min
    /\ AN.quality_ok


(***************************************************************************)
(* Specification SpecCriteria: a sequence of get_regional_criteria calls,  *)
(* made directly or by analyze_stock.                                      *)
(***************************************************************************)
\* longest sequence of calls followed
MaxCalls == 3

\* "EUR" is in no regional table
CurrencyInputs == {"USD", "GBP", "CAD", "EUR"}

\* the selectbox offers the first two; any other string takes the else branch
ModeInputs == {"Balanced", "Aggressive", "Conservative"}

\* one snapshot per currency, as fetch_stock_data builds it
SampleSnapshots ==
    {Val(fetch_stock_data("KO",
            [ok |-> TRUE, currentPrice |-> 9, dividendRate |-> 2,
             sharesOutstanding |-> 50, currency |-> c],
            5, RegularSeries(FirstReferenceYear - 6, FirstReferenceYear - 1, 1, 0),
            [ok |-> TRUE, Close |-> <<7, 20>>], FirstReferenceYear, AppDirectory,
            [kind |-> "exception", us_gaap |-> EmptyDict],
            [kind |-> "ok", matches |-> RegularRows(4, 1)])) : c \in CurrencyInputs}

ResolveCall(currency, mode, criteria, caller) ==
    [currency |-> currency, mode |-> mode, criteria |-> criteria, caller |-> caller]

InitCriteria ==
    /\ regional_table = REGIONAL_CRITERIA
    /\ resolve_calls = <<>>
    /\ AppIdle /\ CritRestIdle

\* get_regional_criteria(currency, screening_mode)
GetRegionalCriteria ==
    /\ Len(resolve_calls) < MaxCalls
    /\ \E currency \in CurrencyInputs, mode \in ModeInputs :
          /\ resolve_calls' = Append(resolve_calls,
                ResolveCall(currency, mode, get_regional_criteria(currency, mode),
                            "get_regional_criteria"))
          /\ regional_table' = TableAfterResolve(regional_table, currency, mode)
    /\ UNCHANGED <<appVars, critRest>>

\* criteria = get_regional_criteria(stock_data['currency'], screening_mode),
\* returned as analysis['criteria']
AnalyzeResolves ==
    /\ Len(resolve_calls) < MaxCalls
    /\ \E sd \in SampleSnapshots, mode \in ScreeningModes :
          /\ resolve_calls' = Append(resolve_calls,
                ResolveCall(sd.currency, mode, analyze_stock(sd, mode).criteria,
                            "analyze_stock"))
          /\ regional_table' = TableAfterResolve(regional_table, sd.currency, mode)
    /\ UNCHANGED <<appVars, critRest>>

NextCriteria ==
    \/ GetRegionalCriteria
    \/ AnalyzeResolves

SpecCriteria == InitCriteria /\ [][NextCriteria]_vars

\* ------------------------------------------------------------------------
\* Claims about get_regional_criteria.
\* ------------------------------------------------------------------------
\* the Balanced record of a currency: its own, or the USD one
BalancedOf(currency) ==
    IF currency \in DOMAIN REGIONAL_CRITERIA
    THEN REGIONAL_CRITERIA[currency] ELSE REGIONAL_CRITERIA["USD"]

CountFields ==
    {"dividend_increases_min", "shares_outstanding_min", "institutional_holders_min",
     "eps_increases_min", "consecutive_dividend_min"}

\* C11: in Aggressive mode, for every currency, each count threshold is
\* max(Balanced value - offset, floor) with offsets 2, 2, 2, 5 and floors
\* 3, 3, 3, 5, hence never below its floor, and the shares threshold is the
\* Balanced value times 0.4 (both in tenths of a million: 10 * r = 4 * base).
C11_AggressiveFloors ==
    \A i \in 1..Len(resolve_calls) :
        LET call == resolve_calls[i]
            r == call.criteria
            b == BalancedOf(call.currency)
        IN  call.mode = "Aggressive" =>
              /\ r.dividend_increases_min = Max2(b.dividend_increases_min - 2, 3)
              /\ r.institutional_holders_min = Max2(b.institutional_holders_min - 2, 3)
              /\ r.eps_increases_min = Max2(b.eps_increases_min - 2, 3)
              /\ r.consecutive_dividend_min = Max2(b.consecutive_dividend_min - 5, 5)
              /\ r.dividend_increases_min >= 3
              /\ r.institutional_holders_min >= 3
              /\ r.eps_increases_min >= 3
              /\ r.consecutive_dividend_min >= 5
              /\ 10 * r.shares_outstanding_min = 4 * b.shares_outstanding_min

\* an Aggressive call for an unknown currency where the floor acts: the
\* Balanced EPS threshold less 2 is below 3, the result is 3
C11_Witness ==
    \E i \in 1..Len(resolve_calls) :
        /\ resolve_calls[i].mode = "Aggressive"
        /\ resolve_calls[i].currency \notin DOMAIN REGIONAL_CRITERIA
        /\ BalancedOf(resolve_calls[i].currency).eps_increases_min - 2 < 3
        /\ resolve_calls[i].criteria.eps_increases_min = 3

\* an Aggressive call where a threshold sits exactly on its floor without
\* the floor acting (consecutive years: 10 - 5 = 5)
C11_OnFloorReached ==
    \E i \in 1..Len(resolve_calls) :
        /\ resolve_calls[i].mode = "Aggressive"
        /\ resolve_calls[i].currency = "GBP"
        /\ resolve_calls[i].criteria.consecutive_dividend_min = 5
        /\ resolve_calls[i].criteria.shares_outstanding_min = 200

\* C12: get_regional_criteria is total and pure: every call returns a
\* record with the five thresholds, an unknown currency resolves as USD,
\* two calls with the same (currency, mode) return equal records whatever
\* was called in between, and the table stays as it was defined.
C12_TotalPure ==
    /\ regional_table = REGIONAL_CRITERIA
    /\ \A i \in 1..Len(resolve_calls) :
          LET call == resolve_calls[i]
          IN  /\ CountFields \subseteq DOMAIN call.criteria
              /\ \A f \in CountFields : call.criteria[f] \in Nat
              /\ call.mode # "Aggressive" => call.criteria = BalancedOf(call.currency)
              /\ \A j \in 1..Len(resolve_calls) :
                    /\ (resolve_calls[j].currency = call.currency
                         /\ resolve_calls[j].mode = call.mode)
                       => resolve_calls[j].criteria = call.criteria
                    /\ (call.currency \notin DOMAIN REGIONAL_CRITERIA
                         /\ resolve_calls[j].currency = "USD"
                         /\ resolve_calls[j].mode = call.mode)
                       => [resolve_calls[j].criteria EXCEPT !.description = <<>>]
                          = [call.criteria EXCEPT !.description = <<>>]

\* the same (currency, mode) resolved again after an Aggressive call for the
\* same currency, once directly and once by analyze_stock
C12_Witness ==
    /\ Len(resolve_calls) = 3
    /\ resolve_calls[1].currency = "EUR" /\ resolve_calls[1].mode = "Balanced"
    /\ resolve_calls[1].caller = "get_regional_criteria"
    /\ resolve_calls[2].currency = "EUR" /\ resolve_calls[2].mode = "Aggressive"
    /\ resolve_calls[3].currency = "EUR" /\ resolve_calls[3].mode = "Balanced"
    /\ resolve_calls[3].caller = "analyze_stock"
    /\ resolve_calls[3].criteria = resolve_calls[1].criteria


(***************************************************************************)
(* Specification SpecStatus: determine_dividend_status on every count of   *)
(* consecutive years up to MaxYears.                                       *)
(***************************************************************************)
\* largest count of consecutive years classified
MaxYears == 60

InitStatus ==
    /\ status_years \in 0..MaxYears
    /\ dividend_status = None
    /\ AppIdle /\ StatusRestIdle

\* dividend_status = determine_dividend_status(consecutive_years)
DetermineDividendStatus ==
    /\ IsNone(dividend_status)
    /\ dividend_status' = Some(determine_dividend_status(status_years))
    /\ UNCHANGED <<status_years, appVars, statusRest>>

NextStatus == DetermineDividendStatus

SpecStatus == InitStatus /\ [][NextStatus]_vars

\* ------------------------------------------------------------------------
\* Claims about determine_dividend_status.
\* ------------------------------------------------------------------------
StatusRank(label) ==
    CASE label = "Dividend King" -> 4
      [] label = "Dividend Aristocrat" -> 3
      [] label = "Dividend Achiever" -> 2
      [] label = "Dividend Contender" -> 1
      [] label = "None" -> 0

\* C13: for n >= 0 consecutive years the label is King from 50, Aristocrat
\* from 25 to 49, Achiever from 10 to 24, Contender from 5 to 9, None below
\* 5, and no smaller count of years has a higher rank.
C13_ClassifyStatus ==
    ~IsNone(dividend_status) =>
        LET n == status_years
            label == Val(dividend_status)
        IN  /\ (n >= 50) <=> (label = "Dividend King")
            /\ (n >= 25 /\ n <= 49) <=> (label = "Dividend Aristocrat")
            /\ (n >= 10 /\ n <= 24) <=> (label = "Dividend Achiever")
            /\ (n >= 5 /\ n <= 9) <=> (label = "Dividend Contender")
            /\ (n <= 4) <=> (label = "None")
            /\ \A k \in 0..n :
                  StatusRank(determine_dividend_status(k)) <= StatusRank(label)

\* the boundary 50 is classified King
C13_Witness ==
    /\ status_years = 50
    /\ dividend_status = Some("Dividend King")

\* the other boundaries of the claim: 49, 5 and 4
C13_AristocratReached == status_years = 49 /\ dividend_status = Some("Dividend Aristocrat")
C13_ContenderReached == status_years = 5 /\ dividend_status = Some("Dividend Contender")
C13_NoneReached == status_years = 4 /\ dividend_status = Some("None")


(***************************************************************************)
(* Specification SpecStages: the SEC EDGAR stage and the Macrotrends stage *)
(* on their own, each on the data of a successful download.                *)
(***************************************************************************)
\* longest arbitrary list of entries / rows
MaxScanEntries == 3

\* annual entries of fiscal years 1 and 3 (year 2 is missing), a quarterly
\* entry and an annual entry without 'fy', both of a larger magnitude
ScanEntryInputs ==
    {[form |-> "10-K", fy |-> Some(y), val |-> v] : y \in {1, 3}, v \in {0 - 2, 1, 2}}
    \cup {[form |-> "10-Q", fy |-> Some(1), val |-> 3],
          [form |-> "10-K", fy |-> None, val |-> 3]}

\* EPS of fiscal years 1..n: 1 or 2 in the three oldest and the two latest
\* years, in every combination, and alternating in between
EpsPatterns(n) ==
    {[i \in 1..n |-> IF i \in DOMAIN f THEN f[i] ELSE 1 + (i % 2)] :
        f \in [{1, 2, 3, n - 1, n} -> {1, 2}]}

\* one annual entry per fiscal year
PatternReports(n) ==
    {[i \in 1..n |-> [form |-> "10-K", fy |-> Some(i), val |-> eps[i]]] :
        eps \in EpsPatterns(n)}

\* the same as page rows, the most recent year first
PatternRows(n) ==
    {[i \in 1..n |-> [year |-> n + 1 - i, v2 |-> eps[n + 1 - i], valid |-> TRUE]] :
        eps \in EpsPatterns(n)}

StageYears == {MaxEpsYears - 1, MaxEpsYears}

SecStageInputs ==
    SeqsUpTo(ScanEntryInputs, MaxScanEntries)
    \cup UNION {PatternReports(n) : n \in StageYears}

MacroStageInputs ==
    SeqsUpTo(RowInputs, MaxScanEntries)
    \cup UNION {PatternRows(n) : n \in StageYears}

InitStages ==
    /\ \/ stage_source = "SEC EDGAR" /\ stage_input \in SecStageInputs
       \/ stage_source = "Macrotrends" /\ stage_input \in MacroStageInputs
    /\ stage_map = None
    /\ stage_count = None
    /\ AppIdle /\ StageRestIdle

\* fetch_sec_edgar_eps_increases(ticker): the CIK is found, the companyfacts
\* request answers 200 with stage_input under EarningsPerShareDiluted
RunSecEdgarStage ==
    /\ stage_source = "SEC EDGAR"
    /\ IsNone(stage_count)
    /\ stage_map' = Some(AnnualEps(stage_input, EmptyDict))
    /\ stage_count' = Some(fetch_sec_edgar_eps_increases("KO", AppDirectory,
                             [kind |-> "ok", us_gaap |-> (EpsFields[1] :> stage_input)]))
    /\ UNCHANGED <<stage_source, stage_input, appVars, stageRest>>

\* fetch_macrotrends_eps_increases(ticker): both pages answer 200 and
\* stage_input are the rows matched in originalData
RunMacrotrendsStage ==
    /\ stage_source = "Macrotrends"
    /\ IsNone(stage_count)
    /\ stage_map' = Some(EpsByYear(stage_input, EmptyDict))
    /\ stage_count' = Some(fetch_macrotrends_eps_increases(
                             [kind |-> "ok", matches |-> stage_input]))
    /\ UNCHANGED <<stage_source, stage_input, appVars, stageRest>>

NextStages ==
    \/ RunSecEdgarStage
    \/ RunMacrotrendsStage

SpecStages == InitStages /\ [][NextStages]_vars

\* ------------------------------------------------------------------------
\* Claims about the two stages.
\* ------------------------------------------------------------------------
StageRan == ~IsNone(stage_count)

\* the entries that are annual reports with a fiscal year; those of year y
AnnualEntries(es) ==
    {i \in 1..Len(es) : es[i].form = "10-K" /\ ~IsNone(es[i].fy)}

EntriesOfYear(es, y) == {i \in AnnualEntries(es) : Val(es[i].fy) = y}

\* the first entry of year y whose magnitude no other entry of y exceeds
KeptIndex(es, y) ==
    CHOOSE i \in EntriesOfYear(es, y) :
        /\ \A j \in EntriesOfYear(es, y) : Abs(es[j].val) <= Abs(es[i].val)
        /\ \A j \in EntriesOfYear(es, y) : j < i => Abs(es[j].val) < Abs(es[i].val)

\* the entries of largest magnitude of year y all carry the same value
NoTie(es, y) ==
    \A i, j \in EntriesOfYear(es, y) :
        (Abs(es[i].val) = Abs(es[KeptIndex(es, y)].val)
         /\ Abs(es[j].val) = Abs(es[KeptIndex(es, y)].val)) => es[i].val = es[j].val

Perms(n) == {p \in [1..n -> 1..n] : \A i, j \in 1..n : p[i] = p[j] => i = j}

Permuted(es, p) == [i \in 1..Len(es) |-> es[p[i]]]

\* C14: the dict built by the SEC EDGAR scan has exactly the fiscal years of
\* the 10-K entries that carry 'fy'; for each year it holds the value of the
\* first such entry of largest absolute value (a later one replaces it only
\* when strictly larger in magnitude); and scanning the entries in any other
\* order gives the same years, the same magnitudes, and the same values
\* except between entries of equal magnitude.
C14_LargestMagnitude ==
    (StageRan /\ stage_source = "SEC EDGAR") =>
        LET es == stage_input
            kept == Val(stage_map)
        IN  /\ DOMAIN kept = {Val(es[i].fy) : i \in AnnualEntries(es)}
            /\ \A y \in DOMAIN kept : kept[y] = es[KeptIndex(es, y)].val
            /\ Len(es) <= MaxScanEntries =>
                 \A p \in Perms(Len(es)) :
                    LET other == AnnualEps(Permuted(es, p), EmptyDict)
                    IN  /\ DOMAIN other = DOMAIN kept
                        /\ \A y \in DOMAIN kept :
                              /\ Abs(other[y]) = Abs(kept[y])
                              /\ NoTie(es, y) => other[y] = kept[y]

\* a later annual entry of strictly larger magnitude has replaced an earlier
\* one of the same year, while a quarterly entry of still larger magnitude
\* was ignored
C14_Witness ==
    /\ StageRan /\ stage_source = "SEC EDGAR"
    /\ stage_input = << [form |-> "10-K", fy |-> Some(1), val |-> 1],
                        [form |-> "10-Q", fy |-> Some(1), val |-> 3],
                        [form |-> "10-K", fy |-> Some(1), val |-> 0 - 2] >>
    /\ Val(stage_map) = (1 :> (0 - 2))

\* two entries of equal magnitude and opposite sign: the first is kept
C14_TieReached ==
    /\ StageRan /\ stage_source = "SEC EDGAR"
    /\ stage_input = << [form |-> "10-K", fy |-> Some(3), val |-> 0 - 2],
                        [form |-> "10-K", fy |-> Some(3), val |-> 2] >>
    /\ Val(stage_map) = (3 :> (0 - 2))

\* the most recent RecentYears years of a dict
MostRecent(eps) ==
    {y \in DOMAIN eps : Cardinality({z \in DOMAIN eps : z > y}) < RecentYears}

\* C15: a stage whose dict has fewer than two years returns None; otherwise
\* it returns the count that the dividend counter's loop (ascending years,
\* later value strictly above the earlier) gives on the 12 most recent years
\* of the dict, a number from 0 to 11.
C15_SameCounter ==
    StageRan =>
        LET eps == Val(stage_map)
            r == Val(stage_count)
        IN  IF Cardinality(DOMAIN eps) < 2
            THEN IsNone(r)
            ELSE /\ ~IsNone(r)
                 /\ Val(r) = IncreasesLoop(eps, Sorted(MostRecent(eps)), 2)
                 /\ Val(r) \in 0..(RecentYears - 1)

\* the SEC EDGAR stage on more than 12 fiscal years with a rise between the
\* two oldest: the count returned leaves that rise out
C15_Witness ==
    /\ StageRan /\ stage_source = "SEC EDGAR"
    /\ Cardinality(DOMAIN Val(stage_map)) > RecentYears
    /\ Val(stage_map)[1] < Val(stage_map)[2]
    /\ Val(stage_count) # None
    /\ Val(Val(stage_count)) <
          IncreasesLoop(Val(stage_map), Sorted(DOMAIN Val(stage_map)), 2)

\* the Macrotrends stage on at least 12 years, six rises in its window
C15_MacrotrendsReached ==
    /\ StageRan /\ stage_source = "Macrotrends"
    /\ Cardinality(DOMAIN Val(stage_map)) >= RecentYears
    /\ Val(stage_count) # None
    /\ Val(Val(stage_count)) = 6

\* a single fiscal year: no data
C15_NoDataReached ==
    /\ StageRan
    /\ Cardinality(DOMAIN Val(stage_map)) = 1
    /\ stage_count = Some(None)


(***************************************************************************)
(* Specification SpecRegistry: the SEC EDGAR stage over time, with the     *)
(* cached ticker directory.  st.cache_data(ttl=86400) keeps the value      *)
(* returned by load_sec_company_tickers, whatever it is, and serves it     *)
(* until the entry is 86400 seconds old.                                   *)
(***************************************************************************)
\* @st.cache_data(ttl=86400)
DirectoryTtl == 86400

\* the clock advances in steps of six hours
TickSeconds == 21600

\* number of steps of the clock followed
MaxTicks == 6

\* company_tickers.json answers 200 with the directory, raises (network
\* error, timeout), or answers another status
DirectoryStates == {"ok", "exception", "non200"}

\* try: response = requests.get(url, ...); if response.status_code == 200:
\*     return response.json(); return {}  except: return {}
download_company_tickers(state) ==
    IF state = "exception" THEN <<>>
    ELSE IF state = "ok" THEN AppDirectory
    ELSE <<>>

CacheHit(cache, t) == ~IsNone(cache) /\ t - Val(cache).loaded_at < DirectoryTtl

\* Mutant: an empty result is not kept in the cache.
load_sec_company_tickers_NoEmptyEntry(cache, t, state) ==
    IF CacheHit(cache, t)
    THEN [data |-> Val(cache).value, cache |-> cache, fetched |-> FALSE]
    ELSE LET data == download_company_tickers(state)
         IN  [data |-> data,
              cache |-> IF data = <<>> THEN None
                        ELSE Some([value |-> data, loaded_at |-> t]),
              fetched |-> TRUE]

\* load_sec_company_tickers() through its cache: a live entry is returned
\* without running the body; otherwise the body runs and its return value
\* becomes the entry
load_sec_company_tickers(cache, t, state) ==
    IF CacheHit(cache, t)
    THEN [data |-> Val(cache).value, cache |-> cache, fetched |-> FALSE]
    ELSE LET data == download_company_tickers(state)
         IN  [data |-> data,
              cache |-> Some([value |-> data, loaded_at |-> t]),
              fetched |-> TRUE]

\* Mutant: the politeness delay placed before the CIK test.
SecEdgarEffects_SleepFirst(cik, fetched) ==
    <<"get_cik_from_sec">>
    \o (IF fetched THEN <<"GET company_tickers.json">> ELSE <<>>)
    \o <<"time.sleep(0.2)">>
    \o (IF IsNone(cik) THEN <<>> ELSE <<"GET companyfacts">>)

\* what fetch_sec_edgar_eps_increases does, in order: cik = get_cik_from_sec
\* (which downloads the directory on a cache miss); if not cik: return None;
\* time.sleep(0.2); requests.get(facts_url)
SecEdgarEffects(cik, fetched) ==
    <<"get_cik_from_sec">>
    \o (IF fetched THEN <<"GET company_tickers.json">> ELSE <<>>)
    \o (IF IsNone(cik) THEN <<>> ELSE <<"time.sleep(0.2)", "GET companyfacts">>)

InitRegistry ==
    /\ now = 0
    /\ directory_state \in DirectoryStates
    /\ directory_cache = None
    /\ directory_loads = <<>>
    /\ registry_run = None
    /\ AppIdle /\ RegistryRestIdle

\* time passes
Tick ==
    /\ now + TickSeconds <= MaxTicks * TickSeconds
    /\ now' = now + TickSeconds
    /\ UNCHANGED <<directory_state, directory_cache, directory_loads, registry_run,
                   appVars, registryRest>>

\* sec.gov becomes reachable or stops being so
DirectoryChanges ==
    /\ \E s \in DirectoryStates \ {directory_state} : directory_state' = s
    /\ UNCHANGED <<now, directory_cache, directory_loads, registry_run,
                   appVars, registryRest>>

\* the second stage of fetch_eps_increases_multi_source for some ticker
RunRegistryStage ==
    \E t \in Tickers, resp \in AppSecResponses :
        LET load == load_sec_company_tickers(directory_cache, now, directory_state)
            cik == get_cik_from_sec(t, load.data)
            r == fetch_sec_edgar_eps_increases(t, load.data, resp)
        IN  /\ directory_cache' = load.cache
            /\ directory_loads' =
                 IF load.fetched
                 THEN Append(directory_loads, [at |-> now, state |-> directory_state])
                 ELSE directory_loads
            /\ registry_run' = Some([ ticker |-> t, at |-> now,
                                      directory_state |-> directory_state,
                                      directory |-> load.data,
                                      cik |-> cik,
                                      effects |-> SecEdgarEffects(cik, load.fetched),
                                      result |-> r,
                                      next |-> AfterSecEdgar(r).pc ])
            /\ UNCHANGED <<now, directory_state, appVars, registryRest>>

NextRegistry ==
    \/ Tick
    \/ DirectoryChanges
    \/ RunRegistryStage

SpecRegistry == InitRegistry /\ [][NextRegistry]_vars

\* ------------------------------------------------------------------------
\* Claims about the SEC EDGAR stage and the directory cache.
\* ------------------------------------------------------------------------
RegistryRan == ~IsNone(registry_run)
RUN == Val(registry_run)

CountOf(q, e) == Cardinality({i \in 1..Len(q) : q[i] = e})

\* no entry of the directory has the ticker, case apart
Absent(t, directory) ==
    \A i \in 1..Len(directory) : Upper(directory[i].ticker) # Upper(t)

\* C16: the CIK lookup returns None exactly when the directory is empty or
\* has no entry for the ticker (letter case apart); then the stage has
\* called get_cik_from_sec once, has neither slept nor requested
\* companyfacts, returns None, and the chain goes on to Macrotrends.
C16_NotFoundSkips ==
    RegistryRan =>
        /\ IsNone(RUN.cik) <=> (RUN.directory = <<>> \/ Absent(RUN.ticker, RUN.directory))
        /\ IsNone(RUN.cik) =>
              /\ CountOf(RUN.effects, "get_cik_from_sec") = 1
              /\ CountOf(RUN.effects, "time.sleep(0.2)") = 0
              /\ CountOf(RUN.effects, "GET companyfacts") = 0
              /\ IsNone(RUN.result)
              /\ RUN.next = "macrotrends"

\* a ticker absent from a directory that was downloaded successfully
C16_Witness ==
    /\ RegistryRan
    /\ RUN.ticker = "XYZ"
    /\ RUN.directory = AppDirectory
    /\ IsNone(RUN.cik)
    /\ RUN.next = "macrotrends"

\* the empty directory; and a lower-case ticker that is found
C16_EmptyDirectoryReached == RegistryRan /\ RUN.directory = <<>> /\ IsNone(RUN.cik)
C16_FoundReached ==
    /\ RegistryRan /\ RUN.ticker = "ko" /\ ~IsNone(RUN.cik)
    /\ CountOf(RUN.effects, "GET companyfacts") = 1

LastLoad == directory_loads[Len(directory_loads)]

C20_ReloadReached ==
    /\ RegistryRan
    /\ Len(directory_loads) = 2
    /\ directory_loads[1].state # "ok"
    /\ LastLoad.state = "ok"
    /\ RUN.at = LastLoad.at
    /\ ~IsNone(RUN.cik)


(***************************************************************************)
(* Specification SpecTwins: fetch_stock_data and analyze_stock run twice   *)
(* on the same ticker, provider data and mode, while the EPS sources       *)
(* answer independently in the two runs.                                   *)
(***************************************************************************)
TwinInfoInputs ==
    {[ok |-> TRUE, currentPrice |-> 9, dividendRate |-> 2, sharesOutstanding |-> so,
      currency |-> c] : so \in {30, 600}, c \in {"USD", "EUR"}}

TwinHoldersInputs == {3, 5}

\* no dividends, four years (three increases) or thirteen years of rising
\* dividends
TwinDividendInputs(cy) ==
    {<<>>} \cup {RegularSeries(cy - n, cy - 1, 1, 0) : n \in {4, 13}}

TwinHistory == [ok |-> TRUE, Close |-> <<7, 20>>]

\* the request fails, or four annual reports with three rises, or with none
TwinSecResponses ==
    {[kind |-> "exception", us_gaap |-> EmptyDict]}
    \cup {[kind |-> "ok", us_gaap |-> (EpsFields[1] :> RegularReports(4, k))] : k \in {1, 4}}

TwinMacroResponses == AppMacroResponses

InitTwins ==
    /\ twin_sources = None
    /\ twin_data = None
    /\ twin_analysis = None
    /\ AppIdle /\ TwinRestIdle

\* stock_data = fetch_stock_data(ticker), twice; the pair returned by
\* fetch_eps_increases_multi_source at line 446 is kept aside
FetchTwins ==
    /\ IsNone(twin_data)
    /\ \E t \in AppTickers, info \in TwinInfoInputs, holders \in TwinHoldersInputs,
          divs \in TwinDividendInputs(current_year),
          sec1 \in TwinSecResponses, macro1 \in TwinMacroResponses,
          sec2 \in TwinSecResponses, macro2 \in TwinMacroResponses :
          LET eps1 == fetch_eps_increases_multi_source(t, TRUE, divs, current_year,
                                                       AppDirectory, sec1, macro1)
              eps2 == fetch_eps_increases_multi_source(t, TRUE, divs, current_year,
                                                       AppDirectory, sec2, macro2)
              sd1 == fetch_stock_data(t, info, holders, divs, TwinHistory, current_year,
                                      AppDirectory, sec1, macro1)
              sd2 == fetch_stock_data(t, info, holders, divs, TwinHistory, current_year,
                                      AppDirectory, sec2, macro2)
          IN  /\ twin_sources' = Some(<<Val(eps1.result), Val(eps2.result)>>)
              /\ twin_data' = Some(<<Val(sd1), Val(sd2)>>)
    /\ UNCHANGED <<twin_analysis, appVars, twinRest>>

\* analysis = analyze_stock(stock_data, screening_mode), for both
AnalyzeTwins ==
    /\ ~IsNone(twin_data)
    /\ IsNone(twin_analysis)
    /\ \E mode \in ScreeningModes :
          twin_analysis' = Some(<<analyze_stock(Val(twin_data)[1], mode),
                                  analyze_stock(Val(twin_data)[2], mode)>>)
    /\ UNCHANGED <<twin_sources, twin_data, appVars, twinRest>>

NextTwins ==
    \/ FetchTwins
    \/ AnalyzeTwins

SpecTwins == InitTwins /\ [][NextTwins]_vars

\* ------------------------------------------------------------------------
\* Claim about the source label.
\* ------------------------------------------------------------------------
TwinsAnalysed == ~IsNone(twin_analysis)
TwinCount(i) == Val(twin_sources)[i][1]
TwinLabel(i) == Val(twin_sources)[i][2]

\* C17: two runs on the same inputs in which the chain resolved the same EPS
\* count give equal snapshots and equal analysis results (quality_ok, the
\* passed and failed lists, the yields, the recommendation and the zone),
\* whichever stage supplied the count in each.
C17_LabelIrrelevant ==
    /\ (~IsNone(twin_data) /\ TwinCount(1) = TwinCount(2)) =>
          Val(twin_data)[1] = Val(twin_data)[2]
    /\ (TwinsAnalysed /\ TwinCount(1) = TwinCount(2)) =>
          Val(twin_analysis)[1] = Val(twin_analysis)[2]

\* the same count of 3, reported by SEC EDGAR in one run and estimated from
\* the dividends in the other
C17_Witness ==
    /\ TwinsAnalysed
    /\ TwinLabel(1) = "SEC EDGAR"
    /\ TwinLabel(2) = "Estimated from dividends"
    /\ TwinCount(1) = 3 /\ TwinCount(2) = 3
    /\ Val(twin_analysis)[1] = Val(twin_analysis)[2]

\* the other labels the chain can return: Macrotrends against SEC EDGAR, and
\* no data against a reported count of 0
C17_MacrotrendsReached ==
    /\ TwinsAnalysed
    /\ TwinLabel(1) = "Macrotrends" /\ TwinLabel(2) = "SEC EDGAR"
    /\ TwinCount(1) = TwinCount(2)

C17_NoDataReached ==
    /\ TwinsAnalysed
    /\ TwinLabel(1) = "No data available" /\ TwinLabel(2) = "SEC EDGAR"
    /\ TwinCount(1) = 0 /\ TwinCount(2) = 0

\* runs whose counts differ are analysed differently: the count does matter
C17_CountMattersReached ==
    /\ TwinsAnalysed
    /\ TwinCount(1) # TwinCount(2)
    /\ Val(twin_analysis)[1].quality_ok # Val(twin_analysis)[2].quality_ok


(***************************************************************************)
(* Specification SpecModes: one fetch_stock_data, then analyze_stock on    *)
(* the snapshot in each screening mode (the user switches the selectbox    *)
(* and presses Analyze again; the snapshot comes from the cache).          *)
(***************************************************************************)
ModesInfoInputs ==
    {[ok |-> TRUE, currentPrice |-> p, dividendRate |-> 2, sharesOutstanding |-> so,
      currency |-> c] :
        p \in {7, 12}, so \in AppSharesInputs, c \in AppCurrencies}

ModesHistory == [ok |-> TRUE, Close |-> <<7, 9>>]

ModesMacroResponse == [kind |-> "exception", matches |-> <<>>]

InitModes ==
    /\ stock_data = None
    /\ screening_mode = "Balanced"
    /\ analysis = None
    /\ mode_analyses = [mode \in ScreeningModes |-> None]
    /\ ModeRestIdle

\* stock_data = fetch_stock_data(ticker)
FetchForModes ==
    /\ IsNone(stock_data)
    /\ \E t \in AppTickers, info \in ModesInfoInputs, holders \in AppHoldersInputs,
          divs \in AppDividendInputs(current_year), sec \in AppSecResponses :
          stock_data' = fetch_stock_data(t, info, holders, divs, ModesHistory,
                                         current_year, AppDirectory, sec,
                                         ModesMacroResponse)
    /\ UNCHANGED <<screening_mode, analysis, mode_analyses, modeRest>>

\* analysis = analyze_stock(stock_data, screening_mode)
AnalyzeInMode ==
    /\ ~IsNone(stock_data)
    /\ \E mode \in ScreeningModes :
          /\ IsNone(mode_analyses[mode])
          /\ screening_mode' = mode
          /\ analysis' = Some(analyze_stock(Val(stock_data), mode))
          /\ mode_analyses' = [mode_analyses EXCEPT ![mode] = analysis']
    /\ UNCHANGED <<stock_data, modeRest>>

NextModes ==
    \/ FetchForModes
    \/ AnalyzeInMode

SpecModes == InitModes /\ [][NextModes]_vars

\* ------------------------------------------------------------------------
\* Claim about the two modes.
\* ------------------------------------------------------------------------
BothModes ==
    /\ mode_analyses # None
    /\ \A mode \in ScreeningModes : ~IsNone(mode_analyses[mode])

InBalanced == Val(mode_analyses["Balanced"])
InAggressive == Val(mode_analyses["Aggressive"])

\* C18: for the snapshot's currency every Aggressive threshold is at most
\* the Balanced one, and a snapshot that qualifies in Balanced mode
\* qualifies in Aggressive mode with the same yields and recommendation.
C18_AggressiveNotStricter ==
    BothModes =>
        /\ \A f \in CountFields : InAggressive.criteria[f] <= InBalanced.criteria[f]
        /\ InBalanced.quality_ok =>
              /\ InAggressive.quality_ok
              /\ InAggressive.current_yield = InBalanced.current_yield
              /\ InAggressive.buy_yield = InBalanced.buy_yield
              /\ InAggressive.watch_yield = InBalanced.watch_yield
              /\ InAggressive.sell_yield = InBalanced.sell_yield
              /\ InAggressive.recommendation = InBalanced.recommendation
              /\ InAggressive.zone = InBalanced.zone

\* a GBP snapshot that qualifies in both modes
C18_Witness ==
    /\ BothModes
    /\ Val(stock_data).currency = "GBP"
    /\ InBalanced.quality_ok
    /\ InAggressive.quality_ok
    /\ InAggressive.recommendation = InBalanced.recommendation
    /\ InBalanced.recommendation # "DOES NOT QUALIFY"

\* the converse does not hold: a snapshot of an unknown currency that
\* qualifies in Aggressive mode only
C18_OnlyAggressiveReached ==
    /\ BothModes
    /\ Val(stock_data).currency = "EUR"
    /\ ~InBalanced.quality_ok
    /\ InAggressive.quality_ok


(***************************************************************************)
(* Specification SpecSession: the runs of main() in one browser session.   *)
(* Streamlit runs main() from top to bottom on every interaction; only     *)
(* st.session_state and the st.cache_data entries outlive a run.           *)
(***************************************************************************)
\* the text input, upper-cased; "" when left empty
SessionTickers == {"", "KO", "XYZ"}

\* the provider answers, or stock.info raises
SessionInfoInputs ==
    {[ok |-> TRUE, currentPrice |-> 9, dividendRate |-> 2, sharesOutstanding |-> 600,
      currency |-> "USD"],
     [ok |-> FALSE, currentPrice |-> 0, dividendRate |-> 0, sharesOutstanding |-> 0,
      currency |-> "USD"]}

SessionFetch(t, info) ==
    fetch_stock_data(t, info, 5,
        RegularSeries(FirstReferenceYear - 13, FirstReferenceYear - 1, 1, 0),
        [ok |-> TRUE, Close |-> <<7, 9>>], FirstReferenceYear, AppDirectory,
        [kind |-> "ok", us_gaap |-> (EpsFields[1] :> RegularReports(5, 1))],
        [kind |-> "exception", matches |-> <<>>])

\* Mutant: the counter is incremented after the fetch, and only when the
\* fetch returned data.
PageEvents_CountOnSuccess(remaining, analyze_button, tk, sd) ==
    IF ~(remaining > 0) THEN <<"show_upgrade_cta">>
    ELSE IF analyze_button /\ tk # ""
         THEN <<"fetch_stock_data">>
              \o (IF ~IsNone(sd)
                  THEN <<"analysis_count += 1", "analyze_stock", "show_upgrade_cta">>
                  ELSE <<>>)
         ELSE IF tk = "" /\ analyze_button THEN <<"st.warning">>
         ELSE <<>>

\* what one run of main() does, in order.
\* if remaining > 0: ... else: ...; show_upgrade_cta(); return
\* if analyze_button and ticker: analysis_count += 1; fetch_stock_data;
\*     if stock_data: analyze_stock ... show_upgrade_cta()
\* elif not ticker and analyze_button: st.warning
\* (the test "if remaining <= 0" at line 912 is never true: such a run has
\* returned at line 880)
PageEvents(remaining, analyze_button, tk, sd) ==
    IF ~(remaining > 0) THEN <<"show_upgrade_cta">>
    ELSE IF analyze_button /\ tk # ""
         THEN <<"analysis_count += 1", "fetch_stock_data">>
              \o (IF ~IsNone(sd) THEN <<"analyze_stock", "show_upgrade_cta">> ELSE <<>>)
         ELSE IF tk = "" /\ analyze_button THEN <<"st.warning">>
         ELSE <<>>

Occurs(q, e) == \E i \in 1..Len(q) : q[i] = e

InitSession ==
    /\ analysis_count = 0
    /\ analyses_limit = AnalysesLimit
    /\ fetch_cache = [t \in SessionTickers \ {""} |-> None]
    /\ page_run = None
    /\ AppIdle /\ SessionRestIdle

\* one run of main(): the widgets' values are the inputs
PageRun ==
    \E analyze_button \in BOOLEAN, tk \in SessionTickers, mode \in ScreeningModes,
       info \in SessionInfoInputs :
        LET remaining == analyses_limit - analysis_count
            fetches == remaining > 0 /\ analyze_button /\ tk # ""
            hit == fetches /\ ~IsNone(fetch_cache[tk])
            sd == IF ~fetches THEN None
                  ELSE IF hit THEN Val(fetch_cache[tk])
                  ELSE SessionFetch(tk, info)
            events == PageEvents(remaining, analyze_button, tk, sd)
        IN  /\ analysis_count' =
                 IF Occurs(events, "analysis_count += 1")
                 THEN analysis_count + 1 ELSE analysis_count
            /\ fetch_cache' =
                 IF Occurs(events, "fetch_stock_data") /\ ~hit
                 THEN [fetch_cache EXCEPT ![tk] = Some(sd)] ELSE fetch_cache
            /\ stock_data' = sd
            /\ screening_mode' = mode
            /\ analysis' = IF Occurs(events, "analyze_stock")
                           THEN Some(analyze_stock(Val(sd), mode)) ELSE None
            /\ page_run' = Some([ analyze_button |-> analyze_button, ticker |-> tk,
                                  count_before |-> analysis_count,
                                  remaining |-> remaining,
                                  served |-> IF ~Occurs(events, "fetch_stock_data")
                                             THEN "none"
                                             ELSE IF hit THEN "cache" ELSE "fresh",
                                  events |-> events ])
            /\ UNCHANGED <<analyses_limit, sessionRest>>

\* an entry of fetch_stock_data's cache reaches its ttl of 3600 s
FetchCacheExpires ==
    /\ \E t \in DOMAIN fetch_cache :
          /\ ~IsNone(fetch_cache[t])
          /\ fetch_cache' = [fetch_cache EXCEPT ![t] = None]
    /\ UNCHANGED <<analysis_count, analyses_limit, page_run, appVars, sessionRest>>

NextSession ==
    \/ PageRun
    \/ FetchCacheExpires

SpecSession == InitSession /\ [][NextSession]_vars

\* ------------------------------------------------------------------------
\* Claim about the usage counter.
\* ------------------------------------------------------------------------
PageRan == ~IsNone(page_run)
PAGE == Val(page_run)

IndexOf(q, e) == CHOOSE i \in 1..Len(q) : q[i] = e

\* C19: analysis_count stays within 0..analyses_limit = 5; a run with the
\* button pressed, a ticker entered and analyses remaining adds exactly one,
\* before fetch_stock_data is called, whether the fetch returns data, fails
\* or is served from the cache; a press with no ticker, or no press, leaves
\* it; and a run that starts with the counter at the limit neither fetches
\* nor analyses.
C19_CounterBounded ==
    /\ analyses_limit = 5
    /\ analysis_count \in 0..analyses_limit
    /\ PageRan =>
          /\ (PAGE.analyze_button /\ PAGE.ticker # "" /\ PAGE.count_before < analyses_limit)
                => /\ analysis_count = PAGE.count_before + 1
                   /\ Occurs(PAGE.events, "fetch_stock_data")
                   /\ IndexOf(PAGE.events, "analysis_count += 1")
                         < IndexOf(PAGE.events, "fetch_stock_data")
                   /\ Cardinality({i \in 1..Len(PAGE.events) :
                                      PAGE.events[i] = "analysis_count += 1"}) = 1
          /\ (~PAGE.analyze_button \/ PAGE.ticker = "")
                => analysis_count = PAGE.count_before
          /\ PAGE.count_before = analyses_limit
                => /\ analysis_count = PAGE.count_before
                   /\ ~Occurs(PAGE.events, "fetch_stock_data")
                   /\ ~Occurs(PAGE.events, "analyze_stock")
                   /\ IsNone(analysis)
          /\ Occurs(PAGE.events, "analyze_stock") => Occurs(PAGE.events, "fetch_stock_data")

\* the fifth analysis, of a ticker whose fetch fails: counted all the same
C19_Witness ==
    /\ PageRan
    /\ PAGE.count_before = 4
    /\ PAGE.served = "fresh"
    /\ IsNone(stock_data)
    /\ analysis_count = 5

\* a press served from the cache is counted; a press at the limit does
\* nothing; a press with no ticker is not counted
C19_CacheReached ==
    PageRan /\ PAGE.served = "cache" /\ analysis_count = PAGE.count_before + 1

C19_LimitReached ==
    /\ PageRan /\ PAGE.count_before = 5 /\ PAGE.analyze_button /\ PAGE.ticker = "KO"
    /\ PAGE.events = <<"show_upgrade_cta">>

C19_EmptyTickerReached ==
    /\ PageRan /\ PAGE.analyze_button /\ PAGE.ticker = "" /\ PAGE.count_before = 2
    /\ analysis_count = 2

====
